---- MODULE Spec2Model ----
(***************************************************************************)
(* Cart-to-order pipeline of the bookstore application:                    *)
(*   app/services/book_service.py   decrease_book_stock, get_book_by_id    *)
(*   app/services/order_service.py  create_order_from_cart                 *)
(* over a PostgreSQL database (READ COMMITTED, row locks taken by          *)
(* SELECT ... FOR UPDATE and held until the transaction ends).             *)
(* Money is counted in thousandths of a currency unit, so that the         *)
(* quantize(Decimal('0.01'), ROUND_HALF_UP) of the code is a real rounding.*)
(***************************************************************************)
EXTENDS Integers, Sequences, FiniteSets, TLC

\* ------------------------------------------------------------- bounds
NumCallers == 2    \* concurrent callers of decrease_book_stock
MaxStock == 2      \* largest initial stock_quantity of a book
MaxQty == 2        \* largest quantity a request asks for

Procs == 1..NumCallers        \* requests, one service call each
BookIds == {1, 2}             \* rows of table books
MissingBookId == {3}          \* an id with no row in books
AnyBookId == BookIds \cup MissingBookId
NoProc == 0
Prices == {995, 1245}         \* 0.995 and 1.245

VARIABLES
    books,          \* committed table books: book_id -> [stock_quantity, price]
    orders,         \* committed rows of table orders
    order_items,    \* committed rows of table order_items
    order_id_seq,   \* last value of the orders.order_id sequence
    item_id_seq,    \* last value of the order_items.order_item_id sequence
    lock,           \* book_id -> process holding the row lock (NoProc: free)
    pc,             \* position of each request
    conn,           \* each request's connection: "none", "open", "closed"
    tx,             \* each connection's uncommitted writes
    dec,            \* frame of decrease_book_stock
    req,            \* arguments of create_order_from_cart
    ord,            \* locals of create_order_from_cart
    result,         \* what the service call returned or raised
    stock0,         \* stock of each book before any call (history)
    adm,            \* frame of admin_update_book
    session,        \* the Flask session of one browser
    web             \* the route handler that browser's request is in

vars == <<books, orders, order_items, order_id_seq, item_id_seq, lock, pc, conn,
          tx, dec, req, ord, result, stock0, adm, session, web>>

dbVars == <<books, orders, order_items>>

\* ------------------------------------------------------------- database
EmptyTx == [stock |-> <<>>, orders |-> {}, items |-> {}]

\* stock_quantity of book b as a statement of process p's transaction sees it:
\* its own uncommitted write, or else the last committed value
ReadStock(p, b) ==
    IF b \in DOMAIN tx[p].stock THEN tx[p].stock[b] ELSE books[b].stock_quantity

\* conn.commit(): the transaction's writes become the committed state, its
\* row locks are released
CommitBooks(p) ==
    [b \in DOMAIN books |->
        IF b \in DOMAIN tx[p].stock
        THEN [books[b] EXCEPT !.stock_quantity = tx[p].stock[b]]
        ELSE books[b]]

ReleaseLocks(p) == [b \in BookIds |-> IF lock[b] = p THEN NoProc ELSE lock[b]]

Commit(p) ==
    /\ books' = CommitBooks(p)
    /\ orders' = orders \cup tx[p].orders
    /\ order_items' = order_items \cup tx[p].items
    /\ tx' = [tx EXCEPT ![p] = EmptyTx]
    /\ lock' = ReleaseLocks(p)

\* conn.rollback(): the transaction's writes are discarded, its locks released
Rollback(p) ==
    /\ tx' = [tx EXCEPT ![p] = EmptyTx]
    /\ lock' = ReleaseLocks(p)
    /\ UNCHANGED dbVars

\* conn.close(): an open transaction is rolled back by the server
Close(p) ==
    /\ conn' = [conn EXCEPT ![p] = "closed"]
    /\ Rollback(p)

\* ------------------------------------------------ decrease_book_stock
NoDec == [book_id |-> 0, quantity_to_decrease |-> 0, manage_conn_locally |-> FALSE,
          current_stock |-> 0, found |-> FALSE, error |-> "none"]

NoReq == [user_id |-> "None", guest_email |-> "None", cart |-> <<>>,
          shipping_details |-> <<>>, order_id |-> 0]
NoOrd == [idx |-> 0, items |-> <<>>, total |-> 0, order_id |-> 0, error |-> "none",
          errors |-> "none", item_rows |-> <<>>]

\* the frame of a call decrease_book_stock(b, q, db_conn): the quantity check
\* of the entry is made before any connection is used
DecFrame(b, q, local) ==
    [NoDec EXCEPT !.book_id = b, !.quantity_to_decrease = q,
                  !.manage_conn_locally = local,
                  !.error = IF q <= 0 THEN "Validation" ELSE "none"]

\* decrease_book_stock(b, q) with db_conn=None: the entry check, then the
\* connection is opened (get_db_connection may fail: DatabaseError, nothing
\* to close)
DecreaseCall(p, b, q) ==
    /\ pc[p] = "idle"
    /\ dec' = [dec EXCEPT ![p] = DecFrame(b, q, TRUE)]
    /\ IF q <= 0
       THEN /\ pc' = [pc EXCEPT ![p] = "done"]
            /\ result' = [result EXCEPT ![p] = "Validation"]
            /\ UNCHANGED conn
       ELSE \/ /\ pc' = [pc EXCEPT ![p] = "dec_select"]
               /\ conn' = [conn EXCEPT ![p] = "open"]
               /\ UNCHANGED result
            \/ /\ pc' = [pc EXCEPT ![p] = "done"]
               /\ result' = [result EXCEPT ![p] = "Database"]
               /\ UNCHANGED conn
    /\ UNCHANGED <<dbVars, order_id_seq, item_id_seq, lock, tx, req, ord, stock0, adm, session, web>>

\* mutant: a plain SELECT, which neither waits for nor takes the row lock
SelectNoLock(p) ==
    LET b == dec[p].book_id IN
    /\ pc[p] = "dec_select"
    /\ dec' = [dec EXCEPT ![p].found = b \in DOMAIN books,
                          ![p].current_stock = IF b \in DOMAIN books THEN ReadStock(p, b) ELSE 0]
    /\ pc' = [pc EXCEPT ![p] = "dec_update"]
    /\ UNCHANGED <<dbVars, order_id_seq, item_id_seq, lock, conn, tx, req, ord, result,
                   stock0, adm, session, web>>

\* SELECT stock_quantity FROM books WHERE book_id = %s FOR UPDATE
\* blocks while another transaction holds the row lock; no row, no lock
SelectForUpdate(p) ==
    LET b == dec[p].book_id IN
    /\ pc[p] = "dec_select"
    /\ IF b \in DOMAIN books
       THEN /\ lock[b] \in {NoProc, p}
            /\ lock' = [lock EXCEPT ![b] = p]
            /\ dec' = [dec EXCEPT ![p].found = TRUE,
                                  ![p].current_stock = ReadStock(p, b)]
       ELSE /\ dec' = [dec EXCEPT ![p].found = FALSE]
            /\ UNCHANGED lock
    /\ pc' = [pc EXCEPT ![p] = "dec_update"]
    /\ UNCHANGED <<dbVars, order_id_seq, item_id_seq, conn, tx, req, ord, result, stock0, adm, session, web>>

\* mutant: a request for all of the remaining stock is refused
DecOutcomeStrict(found, quantity_to_decrease, current_stock) ==
    IF ~found THEN "NotFound"
    ELSE IF quantity_to_decrease >= current_stock THEN "Validation"
    ELSE "ok"

\* the outcome decided from the row fetched under the lock
DecOutcome(found, quantity_to_decrease, current_stock) ==
    IF ~found THEN "NotFound"
    ELSE IF quantity_to_decrease > current_stock THEN "Validation"
    ELSE "ok"

\* mutant: the UPDATE takes one copy, whatever the quantity
CheckAndUpdateByOne(p) ==
    LET d == dec[p]
        outcome == DecOutcome(d.found, d.quantity_to_decrease, d.current_stock)
        new_stock_quantity == d.current_stock - 1
    IN
    /\ pc[p] = "dec_update"
    /\ IF outcome = "ok"
       THEN /\ tx' = [tx EXCEPT ![p].stock =
                        [b \in DOMAIN tx[p].stock \cup {d.book_id} |->
                            IF b = d.book_id THEN new_stock_quantity
                            ELSE tx[p].stock[b]]]
            /\ pc' = [pc EXCEPT ![p] = "dec_return"]
            /\ UNCHANGED dec
       ELSE /\ dec' = [dec EXCEPT ![p].error = outcome]
            /\ pc' = [pc EXCEPT ![p] = "dec_except"]
            /\ UNCHANGED tx
    /\ UNCHANGED <<dbVars, order_id_seq, item_id_seq, lock, conn, req, ord, result, stock0, adm, session, web>>

\* the checks on the fetched row, then
\* UPDATE books SET stock_quantity = new_stock_quantity WHERE book_id = %s
CheckAndUpdate(p) ==
    LET d == dec[p]
        outcome == DecOutcome(d.found, d.quantity_to_decrease, d.current_stock)
        new_stock_quantity == d.current_stock - d.quantity_to_decrease
    IN
    /\ pc[p] = "dec_update"
    /\ IF outcome = "ok"
       THEN /\ tx' = [tx EXCEPT ![p].stock =
                        [b \in DOMAIN tx[p].stock \cup {d.book_id} |->
                            IF b = d.book_id THEN new_stock_quantity
                            ELSE tx[p].stock[b]]]
            /\ pc' = [pc EXCEPT ![p] = "dec_return"]
            /\ UNCHANGED dec
       ELSE /\ dec' = [dec EXCEPT ![p].error = outcome]
            /\ pc' = [pc EXCEPT ![p] = "dec_except"]
            /\ UNCHANGED tx
    /\ UNCHANGED <<dbVars, order_id_seq, item_id_seq, lock, conn, req, ord, result, stock0, adm, session, web>>

\* a statement of decrease_book_stock (the SELECT, the UPDATE, the commit of a
\* local connection) raises a driver error: the except Exception handler
\* wraps it into DatabaseError
DecFault(p) ==
    /\ \/ pc[p] \in {"dec_select", "dec_update"}
       \/ pc[p] = "dec_return" /\ dec[p].manage_conn_locally
    /\ dec' = [dec EXCEPT ![p].error = "Database"]
    /\ pc' = [pc EXCEPT ![p] = "dec_except"]
    /\ UNCHANGED <<dbVars, order_id_seq, item_id_seq, lock, conn, tx, req, ord, result,
                   stock0, adm, session, web>>

\* mutant: a known kind raised inside a caller's transaction is wrapped into
\* DatabaseError
DecExitWraps(p, outcome) ==
    IF dec[p].manage_conn_locally
    THEN /\ pc' = [pc EXCEPT ![p] = "done"]
         /\ result' = [result EXCEPT ![p] = outcome]
         /\ UNCHANGED <<ord, dec>>
    ELSE /\ pc' = [pc EXCEPT ![p] = IF outcome = "ok" THEN "insert_item" ELSE "except"]
         /\ ord' = [ord EXCEPT ![p].error = IF outcome = "ok" THEN "none" ELSE "Database"]
         /\ dec' = [dec EXCEPT ![p] = NoDec]
         /\ UNCHANGED result

\* control goes back to the caller of decrease_book_stock: the process ends
\* (a call with db_conn=None) or create_order_from_cart goes on
DecExit(p, outcome) ==
    IF dec[p].manage_conn_locally
    THEN /\ pc' = [pc EXCEPT ![p] = "done"]
         /\ result' = [result EXCEPT ![p] = outcome]
         /\ UNCHANGED <<ord, dec>>
    ELSE /\ pc' = [pc EXCEPT ![p] = IF outcome = "ok" THEN "insert_item" ELSE "except"]
         /\ ord' = [ord EXCEPT ![p].error = IF outcome = "ok" THEN "none" ELSE outcome]
         /\ dec' = [dec EXCEPT ![p] = NoDec]
         /\ UNCHANGED result

\* mutant: the commit is made whoever owns the connection
DecReturnCommits(p) ==
    /\ pc[p] = "dec_return"
    /\ Commit(p)
    /\ IF dec[p].manage_conn_locally
       THEN conn' = [conn EXCEPT ![p] = "closed"]
       ELSE UNCHANGED conn
    /\ DecExit(p, "ok")
    /\ UNCHANGED <<order_id_seq, item_id_seq, req, stock0, adm, session, web>>

\* a decrement whose row lock ends with the statement instead of with the
\* caller's transaction
DecReturnUnlocks(p) ==
    /\ pc[p] = "dec_return"
    /\ IF dec[p].manage_conn_locally
       THEN /\ Commit(p)
            /\ conn' = [conn EXCEPT ![p] = "closed"]
       ELSE /\ lock' = [lock EXCEPT ![dec[p].book_id] = NoProc]
            /\ UNCHANGED <<dbVars, tx, conn>>
    /\ DecExit(p, "ok")
    /\ UNCHANGED <<order_id_seq, item_id_seq, req, stock0, adm, session, web>>

\* success: commit if the connection is managed locally; the finally block
\* closes a locally managed connection; return True
DecReturn(p) ==
    /\ pc[p] = "dec_return"
    /\ IF dec[p].manage_conn_locally
       THEN /\ Commit(p)
            /\ conn' = [conn EXCEPT ![p] = "closed"]
       ELSE UNCHANGED <<dbVars, tx, lock, conn>>
    /\ DecExit(p, "ok")
    /\ UNCHANGED <<order_id_seq, item_id_seq, req, stock0, adm, session, web>>

\* mutant: the failure path rolls back and closes whoever owns the connection
DecExceptAlways(p) ==
    /\ pc[p] = "dec_except"
    /\ IF conn[p] = "open"
       THEN Close(p)
       ELSE UNCHANGED <<dbVars, tx, lock, conn>>
    /\ DecExit(p, dec[p].error)
    /\ UNCHANGED <<order_id_seq, item_id_seq, req, stock0, adm, session, web>>

\* mutant: the failure path leaves the connection as it is
DecExceptLeaks(p) ==
    /\ pc[p] = "dec_except"
    /\ DecExit(p, dec[p].error)
    /\ UNCHANGED <<dbVars, tx, lock, conn, order_id_seq, item_id_seq, req, stock0, adm, session, web>>

\* failure: the except blocks roll back, and the finally block closes, only a
\* locally managed connection; the error is raised to the caller
DecExcept(p) ==
    /\ pc[p] = "dec_except"
    /\ IF dec[p].manage_conn_locally /\ conn[p] = "open"
       THEN Close(p)
       ELSE UNCHANGED <<dbVars, tx, lock, conn>>
    /\ DecExit(p, dec[p].error)
    /\ UNCHANGED <<order_id_seq, item_id_seq, req, stock0, adm, session, web>>

\* ------------------------------------------------ create_order_from_cart
RequiredShippingFields ==
    <<"shipping_address_line1", "shipping_city", "shipping_state", "shipping_zip_code">>

\* a string is a sequence of characters; str.strip() removes the white space
\* at both ends
RECURSIVE LStrip(_)
LStrip(s) == IF s = <<>> \/ Head(s) # " " THEN s ELSE LStrip(Tail(s))

RECURSIVE RStrip(_)
RStrip(s) ==
    IF s = <<>> \/ s[Len(s)] # " " THEN s ELSE RStrip(SubSeq(s, 1, Len(s) - 1))

Strip(s) == RStrip(LStrip(s))

\* shipping_details.get(field_key, "")
Get(shipping_details, field_key) ==
    IF field_key \in DOMAIN shipping_details THEN shipping_details[field_key] ELSE <<>>

\* mutant: a field is taken as given when its value has any character
MissingShippingFieldUnstripped(shipping_details) ==
    LET missing == {k \in 1..Len(RequiredShippingFields) :
                       Get(shipping_details, RequiredShippingFields[k]) = <<>>}
    IN IF missing = {} THEN "none"
       ELSE RequiredShippingFields[CHOOSE k \in missing : \A j \in missing : k <= j]

\* the first of the required fields for which
\* not shipping_details.get(field_key, "").strip(), or "none"
MissingShippingField(shipping_details) ==
    LET missing == {k \in 1..Len(RequiredShippingFields) :
                       Strip(Get(shipping_details, RequiredShippingFields[k])) = <<>>}
    IN IF missing = {} THEN "none"
       ELSE RequiredShippingFields[CHOOSE k \in missing : \A j \in missing : k <= j]

\* Decimal.quantize(Decimal('0.01'), rounding=ROUND_HALF_UP) of a non-negative
\* amount given in thousandths: the result in hundredths
QuantizeHalfUp(amount) == (amount + 5) \div 10

\* guest_email_for_order if not user_id else None
GuestEmailColumn(user_id, guest_email) ==
    IF user_id = "None" THEN guest_email ELSE "None"

\* entry: the empty-cart check and the required shipping fields, before the
\* try block (no handler runs for these)
OrderEntry(p, user_id, guest_email, cart, shipping_details) ==
    /\ pc[p] = "idle"
    /\ req' = [req EXCEPT ![p] = [NoReq EXCEPT !.user_id = user_id,
                                               !.guest_email = guest_email,
                                               !.cart = cart,
                                               !.shipping_details = shipping_details]]
    /\ IF cart = <<>> \/ MissingShippingField(shipping_details) # "none"
       THEN /\ pc' = [pc EXCEPT ![p] = "done"]
            /\ result' = [result EXCEPT ![p] = "Validation"]
            /\ ord' = [ord EXCEPT
                    ![p].error = "Validation",
                    ![p].errors = IF cart = <<>> THEN "none"
                                  ELSE MissingShippingField(shipping_details)]
       ELSE /\ pc' = [pc EXCEPT ![p] = "prevalidate"]
            /\ ord' = [ord EXCEPT ![p].idx = 1]
            /\ UNCHANGED result
    /\ UNCHANGED <<dbVars, order_id_seq, item_id_seq, lock, conn, tx, dec, stock0, adm>>

\* create_order_from_cart called by itself, no browser request being involved
OrderCall(p, user_id, guest_email, cart, shipping_details) ==
    /\ OrderEntry(p, user_id, guest_email, cart, shipping_details)
    /\ UNCHANGED <<session, web>>

\* mutant: the pre-validation does not compare the quantity with the stock
PreCheckNoStock(line) ==
    IF line.quantity <= 0 THEN "Validation"
    ELSE IF line.book_id \notin DOMAIN books THEN "NotFound"
    ELSE "ok"

\* what one iteration of the pre-validation loop raises for a cart line, from
\* the committed row that get_book_by_id reads without any lock
PreCheck(line) ==
    IF line.quantity <= 0 THEN "Validation"
    ELSE IF line.book_id \notin DOMAIN books THEN "NotFound"
    ELSE IF line.quantity > books[line.book_id].stock_quantity THEN "OrderProcessing"
    ELSE "ok"

\* one iteration of the pre-validation loop
PreValidateLine(p) ==
    LET line == req[p].cart[ord[p].idx]
        outcome == PreCheck(line)
    IN
    /\ pc[p] = "prevalidate"
    /\ IF outcome = "ok"
       THEN LET price_at_purchase == books[line.book_id].price
                item_total == price_at_purchase * line.quantity
            IN
            /\ ord' = [ord EXCEPT
                    ![p].items = Append(@, [book_id |-> line.book_id,
                                            quantity |-> line.quantity,
                                            unit_price_at_purchase |-> price_at_purchase]),
                    ![p].total = @ + item_total,
                    ![p].idx = @ + 1]
            /\ pc' = [pc EXCEPT ![p] =
                        IF ord[p].idx = Len(req[p].cart) THEN "insert_order"
                        ELSE "prevalidate"]
       ELSE /\ ord' = [ord EXCEPT ![p].error = outcome]
            /\ pc' = [pc EXCEPT ![p] = "except"]
    /\ UNCHANGED <<dbVars, order_id_seq, item_id_seq, lock, conn, tx, dec, req, result,
                   stock0, adm, session, web>>

OrderRow(p, order_id) ==
    [order_id |-> order_id,
     user_id |-> req[p].user_id,
     guest_email |-> GuestEmailColumn(req[p].user_id, req[p].guest_email),
     total_amount |-> QuantizeHalfUp(ord[p].total),
     status |-> "Pending Payment"]

\* the frame of the call decrease_book_stock(item_data['book_id'],
\* item_data['quantity'], db_conn=conn) for line k of the validated cart
DecrementLine(p, k) ==
    DecFrame(ord[p].items[k].book_id, ord[p].items[k].quantity, FALSE)

\* mutant: the orders row is inserted in autocommit mode, outside the
\* transaction of the decrements
InsertOrderCommitted(p) ==
    LET new_order_id == order_id_seq + 1 IN
    /\ pc[p] = "insert_order"
    /\ conn' = [conn EXCEPT ![p] = "open"]
    /\ order_id_seq' = new_order_id
    /\ orders' = orders \cup {OrderRow(p, new_order_id)}
    /\ ord' = [ord EXCEPT ![p].order_id = new_order_id, ![p].idx = 1]
    /\ dec' = [dec EXCEPT ![p] = DecrementLine(p, 1)]
    /\ pc' = [pc EXCEPT ![p] = "dec_select"]
    /\ UNCHANGED <<books, order_items, tx, item_id_seq, lock, req, result, stock0, adm, session, web>>

\* the total is quantized, the connection opened and the orders row inserted
\* in the new transaction; the loop over the validated lines starts
InsertOrder(p) ==
    LET new_order_id == order_id_seq + 1 IN
    /\ pc[p] = "insert_order"
    /\ conn' = [conn EXCEPT ![p] = "open"]
    /\ order_id_seq' = new_order_id
    /\ tx' = [tx EXCEPT ![p].orders = {OrderRow(p, new_order_id)}]
    /\ ord' = [ord EXCEPT ![p].order_id = new_order_id, ![p].idx = 1]
    /\ dec' = [dec EXCEPT ![p] = DecrementLine(p, 1)]
    /\ pc' = [pc EXCEPT ![p] = "dec_select"]
    /\ UNCHANGED <<dbVars, item_id_seq, lock, req, result, stock0, adm, session, web>>

\* mutant: the order item is written with the price the book has now
ItemLivePrice(item_data) == books[item_data.book_id].price

\* item_data['unit_price_at_purchase']: the price the pre-validation read
ItemPrice(item_data) == item_data.unit_price_at_purchase

\* INSERT INTO order_items ... with the snapshot price of the pre-validation;
\* then the next line's decrement, or the commit
InsertItem(p) ==
    LET item_data == ord[p].items[ord[p].idx]
        new_item_id == item_id_seq + 1
        last == ord[p].idx = Len(ord[p].items)
    IN
    /\ pc[p] = "insert_item"
    /\ item_id_seq' = new_item_id
    /\ tx' = [tx EXCEPT ![p].items = @ \cup
                {[order_item_id |-> new_item_id,
                  order_id |-> ord[p].order_id,
                  book_id |-> item_data.book_id,
                  quantity |-> item_data.quantity,
                  unit_price_at_purchase |-> ItemPrice(item_data)]}]
    /\ ord' = [ord EXCEPT ![p].idx = @ + 1]
    /\ dec' = [dec EXCEPT ![p] = IF last THEN NoDec ELSE DecrementLine(p, ord[p].idx + 1)]
    /\ pc' = [pc EXCEPT ![p] = IF last THEN "commit" ELSE "dec_select"]
    /\ UNCHANGED <<dbVars, order_id_seq, lock, conn, req, result, stock0, adm, session, web>>

\* conn.commit(); the Order object is built and returned through the finally
\* block, which closes the connection
OrderCommit(p) ==
    /\ pc[p] = "commit"
    /\ Commit(p)
    /\ conn' = [conn EXCEPT ![p] = "closed"]
    /\ result' = [result EXCEPT ![p] = "ok"]
    /\ pc' = [pc EXCEPT ![p] = "done"]
    /\ UNCHANGED <<order_id_seq, item_id_seq, dec, req, ord, stock0, adm, session, web>>

\* a driver error in create_order_from_cart's own statements: get_book_by_id
\* wraps it into DatabaseError; get_db_connection, cur.execute and conn.commit
\* raise it as it is, for the except Exception handler to wrap
OrderFault(p) ==
    /\ pc[p] \in {"prevalidate", "insert_order", "insert_item", "commit"}
    /\ ord' = [ord EXCEPT ![p].error =
                IF pc[p] = "prevalidate" THEN "Database" ELSE "OrderProcessing"]
    /\ \/ /\ pc[p] = "insert_order"      \* the INSERT fails on the new connection
          /\ conn' = [conn EXCEPT ![p] = "open"]
       \/ UNCHANGED conn                 \* (at insert_order: get_db_connection fails)
    /\ pc' = [pc EXCEPT ![p] = "except"]
    /\ UNCHANGED <<dbVars, order_id_seq, item_id_seq, lock, tx, dec, req, result, stock0, adm, session, web>>

\* mutant: an error raised after the connection was opened is re-raised as
\* OrderProcessingError
OrderExceptWraps(p) ==
    /\ pc[p] = "except"
    /\ IF conn[p] = "open"
       THEN Close(p) /\ result' = [result EXCEPT ![p] = "OrderProcessing"]
       ELSE /\ UNCHANGED <<dbVars, tx, lock, conn>>
            /\ result' = [result EXCEPT ![p] = ord[p].error]
    /\ pc' = [pc EXCEPT ![p] = "done"]
    /\ UNCHANGED <<order_id_seq, item_id_seq, dec, req, ord, stock0, adm, session, web>>

\* an error path that raises without rollback and close
OrderExceptLeavesOpen(p) ==
    /\ pc[p] = "except"
    /\ result' = [result EXCEPT ![p] = ord[p].error]
    /\ pc' = [pc EXCEPT ![p] = "done"]
    /\ UNCHANGED <<dbVars, tx, lock, conn, order_id_seq, item_id_seq, dec, req, ord, stock0,
                   adm, session, web>>

\* mutant: the except blocks commit instead of rolling back
OrderExceptCommits(p) ==
    /\ pc[p] = "except"
    /\ IF conn[p] = "open"
       THEN Commit(p) /\ conn' = [conn EXCEPT ![p] = "closed"]
       ELSE UNCHANGED <<dbVars, tx, lock, conn>>
    /\ result' = [result EXCEPT ![p] = ord[p].error]
    /\ pc' = [pc EXCEPT ![p] = "done"]
    /\ UNCHANGED <<order_id_seq, item_id_seq, dec, req, ord, stock0, adm, session, web>>

\* the except blocks: if conn: conn.rollback(), and the finally block:
\* if conn: conn.close(); the error is raised to the caller, a known kind as
\* it is
OrderExcept(p) ==
    /\ pc[p] = "except"
    /\ IF conn[p] = "open"
       THEN Close(p)
       ELSE UNCHANGED <<dbVars, tx, lock, conn>>
    /\ result' = [result EXCEPT ![p] = ord[p].error]
    /\ pc' = [pc EXCEPT ![p] = "done"]
    /\ UNCHANGED <<order_id_seq, item_id_seq, dec, req, ord, stock0, adm, session, web>>

\* ------------------------------------------------------------- deadlock
\* p waits in SELECT ... FOR UPDATE for a row lock that q holds
WaitsFor(p, q) ==
    /\ p # q
    /\ pc[p] = "dec_select"
    /\ dec[p].book_id \in BookIds
    /\ lock[dec[p].book_id] = q

\* PostgreSQL's deadlock detector: one transaction of a waiting cycle gets an
\* error for its statement (decrease_book_stock wraps it into DatabaseError)
DeadlockVictim(p) ==
    /\ \E q \in Procs : WaitsFor(p, q) /\ WaitsFor(q, p)
    /\ dec' = [dec EXCEPT ![p].error = "Database"]
    /\ pc' = [pc EXCEPT ![p] = "dec_except"]
    /\ UNCHANGED <<dbVars, order_id_seq, item_id_seq, lock, conn, tx, req, ord, result,
                   stock0, adm, session, web>>

\* ------------------------------------------------ admin_update_book
NoAdm == [pc |-> "idle", book_id |-> 0, stock_quantity |-> 0, price |-> 0]

\* Decimal.quantize(Decimal('0.01')) under the default context (ROUND_HALF_EVEN)
\* of a non-negative amount in thousandths: the result in hundredths
QuantizeHalfEven(amount) ==
    LET down == amount \div 10
        rest == amount % 10
    IN IF rest > 5 \/ (rest = 5 /\ down % 2 = 1) THEN down + 1 ELSE down

\* book_to_update = get_book_by_id(book_id): the committed row, read without a lock
AdminRead(b) ==
    /\ adm.pc = "idle"
    /\ adm' = [pc |-> "loaded", book_id |-> b,
               stock_quantity |-> books[b].stock_quantity, price |-> books[b].price]
    /\ UNCHANGED <<dbVars, order_id_seq, item_id_seq, lock, pc, conn, tx, dec, req, ord,
                   result, stock0, session, web>>

\* a save that also rewrites the price noted in the book's order items
AdminSaveReprices(price_data, stock_data) ==
    LET b == adm.book_id
        price == IF price_data = {} THEN adm.price
                 ELSE 10 * QuantizeHalfEven(CHOOSE x \in price_data : TRUE)
        stock_quantity == IF stock_data = {} THEN adm.stock_quantity
                          ELSE CHOOSE x \in stock_data : TRUE
    IN
    /\ adm.pc = "loaded"
    /\ lock[b] = NoProc
    /\ books' = [books EXCEPT ![b] = [stock_quantity |-> stock_quantity, price |-> price]]
    /\ order_items' = {IF i.book_id = b THEN [i EXCEPT !.unit_price_at_purchase = price]
                        ELSE i : i \in order_items}
    /\ adm' = [adm EXCEPT !.pc = "done", !.price = price,
                          !.stock_quantity = stock_quantity]
    /\ UNCHANGED <<orders, order_id_seq, item_id_seq, lock, pc, conn, tx, dec,
                   req, ord, result, stock0, session, web>>

\* the attributes present in book_data replace those of the loaded object, and
\* Book.save() writes every column of the row (UPDATE books SET ... price = %s,
\* stock_quantity = %s ...) and commits; the UPDATE waits for the row lock
AdminSave(price_data, stock_data) ==
    LET b == adm.book_id
        price == IF price_data = {} THEN adm.price
                 ELSE 10 * QuantizeHalfEven(CHOOSE x \in price_data : TRUE)
        stock_quantity == IF stock_data = {} THEN adm.stock_quantity
                          ELSE CHOOSE x \in stock_data : TRUE
    IN
    /\ adm.pc = "loaded"
    /\ lock[b] = NoProc
    /\ books' = [books EXCEPT ![b] = [stock_quantity |-> stock_quantity, price |-> price]]
    /\ adm' = [adm EXCEPT !.pc = "done", !.price = price,
                          !.stock_quantity = stock_quantity]
    /\ UNCHANGED <<orders, order_items, order_id_seq, item_id_seq, lock, pc, conn, tx, dec,
                   req, ord, result, stock0, session, web>>

\* the order items after the row of book b was deleted: order_items.book_id
\* is a reference only, the items of a deleted book stay as they are
ItemsAfterBookDelete(b) == order_items

\* admin_delete_book after its get_book_by_id found the row: Book.delete runs
\* DELETE FROM books WHERE book_id = %s and commits; the DELETE waits for the
\* row lock
AdminDelete ==
    LET b == adm.book_id IN
    /\ adm.pc = "loaded"
    /\ lock[b] = NoProc
    /\ books' = [c \in DOMAIN books \ {b} |-> books[c]]
    /\ order_items' = ItemsAfterBookDelete(b)
    /\ adm' = [adm EXCEPT !.pc = "done"]
    /\ UNCHANGED <<orders, order_id_seq, item_id_seq, lock, pc, conn, tx, dec,
                   req, ord, result, stock0, session, web>>

\* ------------------------- _calculate_current_cart_total_and_items
\* A session value is a Python value with its type: an int, a str (a sequence
\* of characters), a float (given in tenths) or None.
DigitValue == ("0" :> 0) @@ ("1" :> 1) @@ ("2" :> 2) @@ ("3" :> 3)

RECURSIVE DecimalValue(_)
DecimalValue(s) ==
    IF s = <<>> THEN 0
    ELSE 10 * DecimalValue(SubSeq(s, 1, Len(s) - 1)) + DigitValue[s[Len(s)]]

\* int(x): an int is itself, a float is truncated, a str is stripped and read
\* as decimal digits or raises ValueError, None raises TypeError
PyInt(x) ==
    CASE x.type = "int" -> [error |-> "none", value |-> x.value]
      [] x.type = "float" -> [error |-> "none", value |-> x.value \div 10]
      [] x.type = "str" ->
            LET t == Strip(x.value) IN
            IF t # <<>> /\ \A i \in 1..Len(t) : t[i] \in DOMAIN DigitValue
            THEN [error |-> "none", value |-> DecimalValue(t)]
            ELSE [error |-> "ValueError", value |-> 0]
      [] OTHER -> [error |-> "TypeError", value |-> 0]

Str(s) == [type |-> "str", value |-> s]

\* the call: an empty cart_session returns ([], Decimal('0.00'), True) at once
ValueEntry(p, cart_session) ==
    /\ pc[p] = "idle"
    /\ req' = [req EXCEPT ![p] = [NoReq EXCEPT !.cart = cart_session]]
    /\ IF cart_session = <<>>
       THEN /\ pc' = [pc EXCEPT ![p] = "done"]
            /\ result' = [result EXCEPT ![p] =
                    [cart_items_detailed |-> <<>>, grand_total |-> 0, is_empty |-> TRUE]]
            /\ UNCHANGED ord
       ELSE /\ pc' = [pc EXCEPT ![p] = "value_line"]
            /\ ord' = [ord EXCEPT ![p].idx = 1]
            /\ UNCHANGED result
    /\ UNCHANGED <<dbVars, order_id_seq, item_id_seq, lock, conn, tx, dec, stock0, adm>>

\* the valuation called by itself, no browser request being involved
ValueCall(p, cart_session) ==
    /\ ValueEntry(p, cart_session)
    /\ UNCHANGED <<session, web>>

\* where the loop goes after the entry at idx
AfterEntry(p) == IF ord[p].idx = Len(req[p].cart) THEN "value_return" ELSE "value_line"

\* mutant: an entry that is not valued is also taken out of the cart map
ValueLineCleans(p) ==
    LET entry == req[p].cart[ord[p].idx]
        book_id_int == PyInt(Str(entry.key))
        current_quantity == PyInt(entry.value)
        valued == /\ book_id_int.error = "none" /\ current_quantity.error = "none"
                  /\ current_quantity.value > 0
                  /\ book_id_int.value \in DOMAIN books
        book == books[book_id_int.value]
        item_total == book.price * current_quantity.value
        kept == {k \in 1..Len(req[p].cart) : k # ord[p].idx}
    IN
    /\ pc[p] = "value_line"
    /\ IF valued
       THEN /\ ord' = [ord EXCEPT
                    ![p].items = Append(@, [book_id |-> book_id_int.value,
                                            quantity |-> current_quantity.value,
                                            unit_price |-> book.price,
                                            total_price |-> QuantizeHalfUp(item_total),
                                            stock_quantity |-> book.stock_quantity]),
                    ![p].total = @ + item_total,
                    ![p].idx = @ + 1]
            /\ pc' = [pc EXCEPT ![p] = AfterEntry(p)]
            /\ UNCHANGED req
       ELSE /\ req' = [req EXCEPT ![p].cart =
                        IF Len(@) = 1 THEN <<>>
                        ELSE <<@[CHOOSE k \in kept : TRUE]>>]
            /\ ord' = [ord EXCEPT ![p].idx = IF ord[p].idx = 1 THEN 1 ELSE 2]
            /\ pc' = [pc EXCEPT ![p] =
                        IF ord[p].idx = Len(req[p].cart) THEN "value_return"
                        ELSE "value_line"]
    /\ UNCHANGED <<dbVars, order_id_seq, item_id_seq, lock, conn, tx, dec, result,
                   stock0, adm, session, web>>

\* one iteration of the loop over cart_session.items(): the key and the
\* quantity are converted, the book is read, the line is appended and its
\* exact total added to grand_total; ValueError, NotFoundError and any other
\* exception are logged and the loop goes on
ValueLine(p) ==
    LET entry == req[p].cart[ord[p].idx]
        book_id_int == PyInt(Str(entry.key))
        current_quantity == PyInt(entry.value)
        valued == /\ book_id_int.error = "none" /\ current_quantity.error = "none"
                  /\ current_quantity.value > 0
                  /\ book_id_int.value \in DOMAIN books
        book == books[book_id_int.value]
        item_total == book.price * current_quantity.value
    IN
    /\ pc[p] = "value_line"
    /\ IF valued
       THEN ord' = [ord EXCEPT
                    ![p].items = Append(@, [book_id |-> book_id_int.value,
                                            quantity |-> current_quantity.value,
                                            unit_price |-> book.price,
                                            total_price |-> QuantizeHalfUp(item_total),
                                            stock_quantity |-> book.stock_quantity]),
                    ![p].total = @ + item_total,
                    ![p].idx = @ + 1]
       ELSE ord' = [ord EXCEPT ![p].idx = @ + 1]
    /\ pc' = [pc EXCEPT ![p] = AfterEntry(p)]
    /\ UNCHANGED <<dbVars, order_id_seq, item_id_seq, lock, conn, tx, dec, req, result,
                   stock0, adm, session, web>>

\* get_book_by_id raises DatabaseError for an entry whose key and quantity
\* were accepted: except Exception logs it and the loop goes on
ValueFault(p) ==
    LET entry == req[p].cart[ord[p].idx]
        book_id_int == PyInt(Str(entry.key))
        current_quantity == PyInt(entry.value)
    IN
    /\ pc[p] = "value_line"
    /\ book_id_int.error = "none" /\ current_quantity.error = "none"
    /\ current_quantity.value > 0
    /\ ord' = [ord EXCEPT ![p].idx = @ + 1]
    /\ pc' = [pc EXCEPT ![p] = AfterEntry(p)]
    /\ UNCHANGED <<dbVars, order_id_seq, item_id_seq, lock, conn, tx, dec, req, result,
                   stock0, adm, session, web>>

\* the sum of the rounded totals of the lines, in hundredths
RECURSIVE RoundedSum(_)
RoundedSum(items) ==
    IF items = <<>> THEN 0 ELSE Head(items).total_price + RoundedSum(Tail(items))

\* mutant: grand_total is the sum of the rounded totals of the lines
ValueReturnSumsRounded(p) ==
    /\ pc[p] = "value_return"
    /\ result' = [result EXCEPT ![p] =
            [cart_items_detailed |-> ord[p].items,
             grand_total |-> RoundedSum(ord[p].items),
             is_empty |-> ord[p].items = <<>>]]
    /\ pc' = [pc EXCEPT ![p] = "done"]
    /\ UNCHANGED <<dbVars, order_id_seq, item_id_seq, lock, conn, tx, dec, req, ord,
                   stock0, adm, session, web>>

\* grand_total is quantized, is_empty = not bool(cart_items_detailed), and
\* the three values are returned
ValueReturn(p) ==
    /\ pc[p] = "value_return"
    /\ result' = [result EXCEPT ![p] =
            [cart_items_detailed |-> ord[p].items,
             grand_total |-> QuantizeHalfUp(ord[p].total),
             is_empty |-> ord[p].items = <<>>]]
    /\ pc' = [pc EXCEPT ![p] = "done"]
    /\ UNCHANGED <<dbVars, order_id_seq, item_id_seq, lock, conn, tx, dec, req, ord,
                   stock0, adm, session, web>>

\* ------------------------------------------------ get_order_details
\* str.strip().lower() of the texts used as e-mail addresses
StripLower ==
    ("" :> "") @@ ("g@x.org" :> "g@x.org") @@ (" G@X.org " :> "g@x.org")
        @@ ("h@x.org" :> "h@x.org")

\* mutant: a requester with a user_id is refused only orders of other users
DetailsOutcomeGuestOrdersOpen(rows, user_id_for_auth, guest_email_for_auth) ==
    IF rows = {} THEN "NotFound"
    ELSE LET order_row == CHOOSE o \in rows : TRUE IN
         IF user_id_for_auth # "None"
         THEN IF order_row.user_id # "None" /\ order_row.user_id # user_id_for_auth
              THEN "Authorization" ELSE "ok"
         ELSE IF guest_email_for_auth # "None"
         THEN IF \/ order_row.user_id # "None"
                 \/ StripLower[IF order_row.guest_email = "None" THEN ""
                                ELSE order_row.guest_email]
                        # StripLower[guest_email_for_auth]
              THEN "Authorization" ELSE "ok"
         ELSE "Authorization"

\* mutant: a requester without identity is refused before the order is looked up
DetailsOutcomeAuthFirst(rows, user_id_for_auth, guest_email_for_auth) ==
    IF user_id_for_auth = "None" /\ guest_email_for_auth = "None" THEN "Authorization"
    ELSE IF rows = {} THEN "NotFound"
    ELSE LET order_row == CHOOSE o \in rows : TRUE IN
         IF user_id_for_auth # "None"
         THEN IF order_row.user_id # user_id_for_auth THEN "Authorization" ELSE "ok"
         ELSE IF \/ order_row.user_id # "None"
                 \/ StripLower[IF order_row.guest_email = "None" THEN ""
                                ELSE order_row.guest_email]
                        # StripLower[guest_email_for_auth]
              THEN "Authorization" ELSE "ok"

\* the decision on the fetched row: NotFoundError if there is none, then the
\* authorization by user_id, else by guest_email, else refused
DetailsOutcome(rows, user_id_for_auth, guest_email_for_auth) ==
    IF rows = {} THEN "NotFound"
    ELSE LET order_row == CHOOSE o \in rows : TRUE IN
         IF user_id_for_auth # "None"
         THEN IF order_row.user_id # user_id_for_auth THEN "Authorization" ELSE "ok"
         ELSE IF guest_email_for_auth # "None"
         THEN IF \/ order_row.user_id # "None"
                 \/ StripLower[IF order_row.guest_email = "None" THEN ""
                                ELSE order_row.guest_email]
                        # StripLower[guest_email_for_auth]
              THEN "Authorization" ELSE "ok"
         ELSE "Authorization"

RECURSIVE ByItemId(_)
\* ORDER BY oi.order_item_id ASC
ByItemId(item_rows) ==
    IF item_rows = {} THEN <<>>
    ELSE LET first == CHOOSE i \in item_rows :
                         \A j \in item_rows : i.order_item_id <= j.order_item_id
         IN <<first>> \o ByItemId(item_rows \ {first})

\* items_query: the order items of the order joined with the rows of their
\* books (FROM order_items oi JOIN books b ON oi.book_id = b.book_id)
ItemsQuery(order_id) ==
    ByItemId({oi \in order_items : oi.order_id = order_id /\ oi.book_id \in DOMAIN books})

\* get_order_details(order_id, user_id_for_auth, guest_email_for_auth) on its
\* own connection: the committed orders row is fetched and the outcome
\* decided; the order goes back with its items, or the error is raised; any
\* failure of the connection or of a query is raised as DatabaseError
GetOrderDetails(p, order_id, user_id_for_auth, guest_email_for_auth) ==
    LET rows == {o \in orders : o.order_id = order_id}
        outcome == DetailsOutcome(rows, user_id_for_auth, guest_email_for_auth)
    IN
    /\ pc[p] = "idle"
    /\ req' = [req EXCEPT ![p] = [NoReq EXCEPT !.order_id = order_id,
                                               !.user_id = user_id_for_auth,
                                               !.guest_email = guest_email_for_auth]]
    /\ \/ /\ result' = [result EXCEPT ![p] = outcome]
          /\ ord' = [ord EXCEPT ![p] =
                    IF outcome = "ok"
                    THEN [NoOrd EXCEPT !.order_id = order_id,
                                       !.items = <<CHOOSE o \in rows : TRUE>>,
                                       !.item_rows = ItemsQuery(order_id)]
                    ELSE NoOrd]
       \/ /\ result' = [result EXCEPT ![p] = "Database"]
          /\ UNCHANGED ord
    /\ pc' = [pc EXCEPT ![p] = "done"]
    /\ UNCHANGED <<dbVars, order_id_seq, item_id_seq, lock, conn, tx, dec, stock0, adm, session, web>>

\* ------------------------------------------------------------- the session
\* session of a browser: the logged-in user (flask_login's current_user), the
\* cart (a dict from str(book_id) to the quantity, kept in insertion order)
\* and the keys that place_order_route sets for a guest
NoSession ==
    [current_user |-> "None", cart |-> <<>>, guest_checkout_email_prefill |-> "None",
     just_placed_order_id |-> 0, guest_order_email |-> "None"]

\* no request of the browser is being handled (route); last, book_id_str,
\* response and order_id are those of its last request, cart the session
\* cart when that request came in, shown the orders whose confirmation page
\* was rendered for the browser, prev the request that came before a
\* place_order request and its response
NoWeb == [route |-> "none", last |-> "none", book_id_str |-> <<>>,
          response |-> "none", order_id |-> 0, cart |-> <<>>, shown |-> {},
          prev |-> <<"none", "none">>]

\* the worker process that handles the requests of the browser
Worker == 1

\* the positions of the cart dict that hold key
CartKeysAt(cart, key) == {k \in 1..Len(cart) : cart[k].key = key}

\* cart.get(key, 0)
CartGet(cart, key) ==
    IF CartKeysAt(cart, key) = {} THEN 0
    ELSE cart[CHOOSE k \in CartKeysAt(cart, key) : TRUE].value.value

\* cart[key] = quantity: the value of an existing key is replaced where it
\* is, a new key is added at the end
CartSet(cart, key, quantity) ==
    LET entry == [key |-> key, value |-> [type |-> "int", value |-> quantity]] IN
    IF CartKeysAt(cart, key) = {} THEN Append(cart, entry)
    ELSE [k \in 1..Len(cart) |-> IF cart[k].key = key THEN entry ELSE cart[k]]

\* del cart[key]
RECURSIVE CartDel(_, _)
CartDel(cart, key) ==
    IF cart = <<>> THEN <<>>
    ELSE IF Head(cart).key = key THEN Tail(cart)
    ELSE <<Head(cart)>> \o CartDel(Tail(cart), key)

\* a request of the browser is answered at once: what it was and what it got
Answered(last, book_id_str, response) ==
    [web EXCEPT !.route = "none", !.last = last, !.book_id_str = book_id_str,
                !.response = response, !.order_id = 0,
                !.cart = session.cart, !.prev = <<"none", "none">>]

\* a request of the browser is taken up by the worker
Started(route) ==
    [web EXCEPT !.route = route, !.last = route, !.book_id_str = <<>>,
                !.response = "none", !.order_id = 0, !.cart = session.cart,
                !.prev = IF route = "place_order" THEN <<web.last, web.response>>
                         ELSE <<"none", "none">>]

\* the worker is through with the request
Finished(response, order_id) ==
    [web EXCEPT !.route = "none", !.response = response, !.order_id = order_id]

\* the worker's frames are dropped at the end of the request
WorkerFree ==
    /\ pc' = [pc EXCEPT ![Worker] = "idle"]
    /\ conn' = [conn EXCEPT ![Worker] = "none"]
    /\ dec' = [dec EXCEPT ![Worker] = NoDec]
    /\ req' = [req EXCEPT ![Worker] = NoReq]
    /\ ord' = [ord EXCEPT ![Worker] = NoOrd]
    /\ result' = [result EXCEPT ![Worker] = "none"]

\* ------------------------------------------------ add_to_cart_route
\* the quantity add_to_cart_route leaves in the cart for a book that has
\* current_quantity_in_cart_for_item in it
FinalQuantityForItem(stock_quantity, current_quantity_in_cart_for_item, requested_quantity_to_add) ==
    LET available_to_add_now == stock_quantity - current_quantity_in_cart_for_item IN
    IF stock_quantity = 0 /\ current_quantity_in_cart_for_item = 0
    THEN current_quantity_in_cart_for_item
    ELSE IF available_to_add_now <= 0 THEN current_quantity_in_cart_for_item
    ELSE IF requested_quantity_to_add <= available_to_add_now
    THEN current_quantity_in_cart_for_item + requested_quantity_to_add
    ELSE stock_quantity

\* POST /add_to_cart with JSON {book_id, quantity}: the quantity must be at
\* least 1 (CartActionError), the id a number (ValueError) of a book that
\* exists (NotFoundError); a failing read gives the 500 answer; otherwise the
\* cart gets the final quantity, or loses the key when that is 0
AddToCart(book_id_str, requested_quantity_to_add) ==
    LET book_id_int == PyInt(Str(book_id_str))
        cart == session.cart
        final_quantity_for_item_in_cart ==
            FinalQuantityForItem(books[book_id_int.value].stock_quantity,
                                 CartGet(cart, book_id_str), requested_quantity_to_add)
    IN
    /\ web.route = "none"
    /\ IF requested_quantity_to_add < 1
       THEN /\ web' = Answered("add_to_cart", book_id_str, "CartAction")
            /\ UNCHANGED session
       ELSE IF book_id_int.error # "none"
       THEN /\ web' = Answered("add_to_cart", book_id_str, "ValueError")
            /\ UNCHANGED session
       ELSE IF book_id_int.value \notin DOMAIN books
       THEN /\ web' = Answered("add_to_cart", book_id_str, "NotFound")
            /\ UNCHANGED session
       ELSE \/ /\ web' = Answered("add_to_cart", book_id_str, "ok")
               /\ session' = [session EXCEPT !.cart =
                     IF final_quantity_for_item_in_cart > 0
                     THEN CartSet(cart, book_id_str, final_quantity_for_item_in_cart)
                     ELSE CartDel(cart, book_id_str)]
            \/ /\ web' = Answered("add_to_cart", book_id_str, "Error")
               /\ UNCHANGED session
    /\ UNCHANGED <<dbVars, order_id_seq, item_id_seq, lock, pc, conn, tx, dec, req, ord,
                   result, stock0, adm>>

\* ------------------------------------------------ update_cart_quantity_route
\* POST /update with JSON {book_id, quantity}: a key that is not in the cart
\* is refused (CartActionError) or, with a quantity of 0 or less, left alone;
\* then the book is read (ValueError, NotFoundError, the 500 answer); a
\* quantity above 0 is stored, capped at the stock read; a quantity of 0 or
\* less removes the key
UpdateCartQuantity(book_id_str, requested_quantity) ==
    LET book_id_int == PyInt(Str(book_id_str))
        cart == session.cart
        stock_quantity == books[book_id_int.value].stock_quantity
        final_quantity_set_in_cart ==
            IF requested_quantity > stock_quantity THEN stock_quantity
            ELSE requested_quantity
    IN
    /\ web.route = "none"
    /\ IF CartKeysAt(cart, book_id_str) = {}
       THEN /\ web' = Answered("update", book_id_str,
                                IF requested_quantity > 0 THEN "CartAction" ELSE "ok")
            /\ UNCHANGED session
       ELSE IF book_id_int.error # "none"
       THEN /\ web' = Answered("update", book_id_str, "ValueError")
            /\ UNCHANGED session
       ELSE IF book_id_int.value \notin DOMAIN books
       THEN /\ web' = Answered("update", book_id_str, "NotFound")
            /\ UNCHANGED session
       ELSE \/ /\ web' = Answered("update", book_id_str, "ok")
               /\ session' = [session EXCEPT !.cart =
                     IF requested_quantity > 0
                     THEN CartSet(cart, book_id_str, final_quantity_set_in_cart)
                     ELSE CartDel(cart, book_id_str)]
            \/ /\ web' = Answered("update", book_id_str, "Error")
               /\ UNCHANGED session
    /\ UNCHANGED <<dbVars, order_id_seq, item_id_seq, lock, pc, conn, tx, dec, req, ord,
                   result, stock0, adm>>

\* ------------------------------------------------ remove_from_cart_route
\* POST /remove with JSON {book_id}: the key is deleted from the cart, or the
\* request refused (CartActionError) when the cart does not have it; the
\* book is read for its title first, and only a failing read (not a missing
\* book, not a key that is no number) ends the request with the 500 answer
RemoveFromCart(book_id_str) ==
    /\ web.route = "none"
    /\ IF CartKeysAt(session.cart, book_id_str) = {}
       THEN /\ web' = Answered("remove", book_id_str, "CartAction")
            /\ UNCHANGED session
       ELSE \/ /\ web' = Answered("remove", book_id_str, "ok")
               /\ session' = [session EXCEPT !.cart = CartDel(@, book_id_str)]
            \/ /\ PyInt(Str(book_id_str)).error = "none"
               /\ web' = Answered("remove", book_id_str, "Error")
               /\ UNCHANGED session
    /\ UNCHANGED <<dbVars, order_id_seq, item_id_seq, lock, pc, conn, tx, dec, req, ord,
                   result, stock0, adm>>

\* ------------------------------------------------ place_order_route
\* re.sub(r'\s+', ' ', text): every run of white space becomes one space
RECURSIVE Collapse(_)
Collapse(s) ==
    IF Len(s) < 2 THEN s
    ELSE IF s[1] = " " /\ s[2] = " " THEN Collapse(Tail(s))
    ELSE <<s[1]>> \o Collapse(Tail(s))

\* normalize_whitespace(text)
NormalizeWhitespace(s) == Strip(Collapse(s))

\* str.upper()
Upper(s) == [k \in 1..Len(s) |-> IF s[k] = "a" THEN "A" ELSE s[k]]

\* normalize_whitespace(...).lower() of the texts typed as guest e-mail
NormalizeLower ==
    ("" :> "") @@ ("g@x.org" :> "g@x.org") @@ (" G@X.org " :> "g@x.org")
        @@ ("g.x.org" :> "g.x.org")

\* the values that match EMAIL_REGEX
ValidEmails == {"g@x.org"}

\* the shipping_details that place_order_route makes of the form
FormShipping(form) ==
    [k \in {RequiredShippingFields[j] : j \in 1..Len(RequiredShippingFields)} |->
        LET text == NormalizeWhitespace(Get(form.shipping, k)) IN
        IF k = "shipping_state" THEN Upper(text) ELSE text]

\* the lines that the pre-validation loop of create_order_from_cart makes of
\* the session cart with int(book_id_str) and int(quantity_in_cart_str); an
\* int() that raises ValueError ends as a quantity <= 0 does, in the
\* ValidationError of the loop (the line then has quantity 0)
CartLines(cart_session) ==
    [k \in 1..Len(cart_session) |->
        LET book_id == PyInt(Str(cart_session[k].key))
            quantity == PyInt(cart_session[k].value)
        IN IF book_id.error = "none" /\ quantity.error = "none"
           THEN [book_id |-> book_id.value, quantity |-> quantity.value]
           ELSE [book_id |-> 0, quantity |-> 0]]

\* POST /place_order: an empty session cart, a guest e-mail that is no address
\* and a blank required shipping field end the request at once; otherwise
\* create_order_from_cart is called with the session cart
PlaceOrderCall(form) ==
    LET cart_session == session.cart
        shipping_details == FormShipping(form)
        is_authenticated == session.current_user # "None"
        guest_email_from_form ==
            IF is_authenticated THEN "None" ELSE NormalizeLower[form.guest_email]
        form_validation_errors == {k \in DOMAIN shipping_details : shipping_details[k] = <<>>}
        with_prefill ==
            IF is_authenticated THEN session
            ELSE [session EXCEPT !.guest_checkout_email_prefill = guest_email_from_form]
        at_once(response) == [Started("place_order") EXCEPT !.route = "none",
                                                              !.response = response]
    IN
    /\ web.route = "none"
    /\ pc[Worker] = "idle"
    /\ IF cart_session = <<>>
       THEN /\ web' = at_once("cart_empty")
            /\ UNCHANGED <<session, pc, req, ord, result, dbVars, order_id_seq, item_id_seq,
                           lock, conn, tx, dec, stock0, adm>>
       ELSE IF ~is_authenticated /\ guest_email_from_form \notin ValidEmails
       THEN /\ web' = at_once("guest_email")
            /\ UNCHANGED <<session, pc, req, ord, result, dbVars, order_id_seq, item_id_seq,
                           lock, conn, tx, dec, stock0, adm>>
       ELSE IF form_validation_errors # {}
       THEN /\ web' = at_once("shipping")
            /\ session' = with_prefill
            /\ UNCHANGED <<pc, req, ord, result, dbVars, order_id_seq, item_id_seq,
                           lock, conn, tx, dec, stock0, adm>>
       ELSE /\ web' = Started("place_order")
            /\ session' = with_prefill
            /\ OrderEntry(Worker, session.current_user, guest_email_from_form,
                          CartLines(cart_session), shipping_details)

\* mutant: the cart is taken out of the session whatever the service did
PlaceOrderReturnClears ==
    /\ web.route = "place_order"
    /\ pc[Worker] = "done"
    /\ IF result[Worker] = "ok"
       THEN /\ session' =
                 IF session.current_user # "None"
                 THEN [session EXCEPT !.cart = <<>>]
                 ELSE [session EXCEPT !.cart = <<>>,
                                      !.guest_checkout_email_prefill = "None",
                                      !.just_placed_order_id = ord[Worker].order_id,
                                      !.guest_order_email = req[Worker].guest_email]
            /\ web' = Finished("confirmation", ord[Worker].order_id)
       ELSE /\ session' = [session EXCEPT !.cart = <<>>]
            /\ web' = Finished(result[Worker], 0)
    /\ WorkerFree
    /\ UNCHANGED <<dbVars, order_id_seq, item_id_seq, lock, tx, stock0, adm>>

\* create_order_from_cart has returned the order: the cart is popped from the
\* session, a guest gets just_placed_order_id and guest_order_email, and the
\* browser is sent to the confirmation page; or it has raised: the error is
\* flashed and the browser sent back to the checkout page
PlaceOrderReturn ==
    /\ web.route = "place_order"
    /\ pc[Worker] = "done"
    /\ IF result[Worker] = "ok"
       THEN /\ session' =
                 IF session.current_user # "None"
                 THEN [session EXCEPT !.cart = <<>>]
                 ELSE [session EXCEPT !.cart = <<>>,
                                      !.guest_checkout_email_prefill = "None",
                                      !.just_placed_order_id = ord[Worker].order_id,
                                      !.guest_order_email = req[Worker].guest_email]
            /\ web' = Finished("confirmation", ord[Worker].order_id)
       ELSE /\ UNCHANGED session
            /\ web' = Finished(result[Worker], 0)
    /\ WorkerFree
    /\ UNCHANGED <<dbVars, order_id_seq, item_id_seq, lock, tx, stock0, adm>>

\* ------------------------------------------------ checkout_page_route
\* str(book_id) of a book id of one digit
PyStr(n) == <<CHOOSE d \in DOMAIN DigitValue : DigitValue[d] = n>>

\* GET /checkout: with an empty session cart the browser is sent home;
\* otherwise the session cart is valued
CheckoutCall ==
    /\ web.route = "none"
    /\ pc[Worker] = "idle"
    /\ IF session.cart = <<>>
       THEN /\ web' = [Started("checkout") EXCEPT !.route = "none", !.response = "home"]
            /\ UNCHANGED <<pc, req, ord, result, dbVars, order_id_seq, item_id_seq,
                           lock, conn, tx, dec, stock0, adm>>
       ELSE /\ web' = Started("checkout")
            /\ ValueEntry(Worker, session.cart)
    /\ UNCHANGED session

\* the valuation has returned: a cart valued as empty sends the browser to
\* the cart page; every valued line's book is read again, and the first one
\* that asks for more than the stock, or whose book is gone, has its key
\* str(book_id) capped at the stock or deleted from the session cart and
\* sends the browser to the cart page; otherwise the checkout page is
\* rendered; a failing read ends the request with an error page
CheckoutFinish ==
    LET cart_items_detailed == result[Worker].cart_items_detailed
        changed == {k \in 1..Len(cart_items_detailed) :
                      \/ cart_items_detailed[k].book_id \notin DOMAIN books
                      \/ cart_items_detailed[k].quantity >
                            books[cart_items_detailed[k].book_id].stock_quantity}
        item_on_page == cart_items_detailed[CHOOSE k \in changed : \A j \in changed : k <= j]
        book_id_session_key == PyStr(item_on_page.book_id)
        gone == item_on_page.book_id \notin DOMAIN books
    IN
    /\ web.route = "checkout"
    /\ pc[Worker] = "done"
    /\ IF result[Worker].is_empty
       THEN /\ web' = Finished("cart_view", 0)
            /\ UNCHANGED session
       ELSE \/ /\ changed = {}
               /\ web' = Finished("checkout_page", 0)
               /\ UNCHANGED session
            \/ /\ changed # {}
               /\ web' = Finished("cart_view", 0)
               /\ session' = [session EXCEPT !.cart =
                     IF CartKeysAt(@, book_id_session_key) = {} THEN @
                     ELSE IF gone \/ books[item_on_page.book_id].stock_quantity = 0
                     THEN CartDel(@, book_id_session_key)
                     ELSE CartSet(@, book_id_session_key,
                                  books[item_on_page.book_id].stock_quantity)]
            \/ /\ web' = Finished("Error", 0)
               /\ UNCHANGED session
    /\ WorkerFree
    /\ UNCHANGED <<dbVars, order_id_seq, item_id_seq, lock, tx, stock0, adm>>

\* ------------------------------------------------ order_confirmation_route
\* just_placed_order_id_in_session == order_id and guest_order_email_in_session
FlagsMatch(order_id) ==
    /\ session.just_placed_order_id # 0
    /\ session.just_placed_order_id = order_id
    /\ session.guest_order_email \notin {"None", ""}

\* what get_order_details is asked by the route and answers, if it is asked
ConfirmationOutcome(order_id) ==
    LET rows == {o \in orders : o.order_id = order_id} IN
    IF session.current_user # "None"
    THEN DetailsOutcome(rows, session.current_user, "None")
    ELSE IF FlagsMatch(order_id)
    THEN DetailsOutcome(rows, "None", session.guest_order_email)
    ELSE "Authorization"

\* the request to GET /confirmation/<order_id> is answered
Confirmed(order_id, response) ==
    [Started("confirmation") EXCEPT
        !.route = "none", !.response = response, !.order_id = order_id,
        !.shown = IF response = "ok" THEN @ \cup {order_id} ELSE @]

\* mutant: the session keys of the guest stay after the page was rendered
ConfirmationKeepsFlags(order_id) ==
    /\ web.route = "none"
    /\ \/ web' = Confirmed(order_id, ConfirmationOutcome(order_id))
       \/ /\ session.current_user # "None" \/ FlagsMatch(order_id)
          /\ web' = Confirmed(order_id, "Database")
    /\ UNCHANGED <<session, dbVars, order_id_seq, item_id_seq, lock, pc, conn, tx, dec, req,
                   ord, result, stock0, adm>>

\* GET /confirmation/<order_id>: a logged-in user gets the order through
\* get_order_details by user id; a guest only if the session names this
\* order as just placed, through get_order_details by the session's guest
\* e-mail, and the two session keys are popped once the order came back; an
\* error of get_order_details, or no matching session keys, sends the
\* browser home
ConfirmationRoute(order_id) ==
    /\ web.route = "none"
    /\ \/ /\ web' = Confirmed(order_id, ConfirmationOutcome(order_id))
          /\ session' =
                IF /\ session.current_user = "None" /\ FlagsMatch(order_id)
                   /\ ConfirmationOutcome(order_id) = "ok"
                THEN [session EXCEPT !.just_placed_order_id = 0,
                                     !.guest_order_email = "None"]
                ELSE session
       \/ /\ session.current_user # "None" \/ FlagsMatch(order_id)
          /\ web' = Confirmed(order_id, "Database")
          /\ UNCHANGED session
    /\ UNCHANGED <<dbVars, order_id_seq, item_id_seq, lock, pc, conn, tx, dec, req,
                   ord, result, stock0, adm>>

\* ------------------------------------------------------------- inputs
\* shipping details with every required field filled in
Shipped == [k \in {RequiredShippingFields[j] : j \in 1..Len(RequiredShippingFields)}
               |-> <<"a">>]

Lines(ids, quantities) == [book_id : ids, quantity : quantities]

\* carts of one or two lines on distinct books (the keys of the session dict)
CartsOf(lines) ==
    {<<l>> : l \in lines} \cup
    {c \in lines \X lines : c[1].book_id # c[2].book_id}

\* ------------------------------------------------------------- initial state
InitBrowser(stocks, prices, sessions) ==
    /\ books \in [BookIds -> [stock_quantity : stocks, price : prices]]
    /\ stock0 = [b \in BookIds |-> books[b].stock_quantity]
    /\ orders = {}
    /\ order_items = {}
    /\ order_id_seq = 0
    /\ item_id_seq = 0
    /\ lock = [b \in BookIds |-> NoProc]
    /\ pc = [p \in Procs |-> "idle"]
    /\ conn = [p \in Procs |-> "none"]
    /\ tx = [p \in Procs |-> EmptyTx]
    /\ dec = [p \in Procs |-> NoDec]
    /\ req = [p \in Procs |-> NoReq]
    /\ ord = [p \in Procs |-> NoOrd]
    /\ result = [p \in Procs |-> "none"]
    /\ adm = NoAdm
    /\ session \in sessions
    /\ web = NoWeb

\* the state before any request, the browser having an empty session
InitWith(stocks, prices) == InitBrowser(stocks, prices, {NoSession})

\* ------------------------------------ concurrent decrease_book_stock calls
\* against book 1 (and against an id that has no row)
InitStock ==
    /\ InitWith(0..MaxStock, {995})
    /\ books[2].stock_quantity = 0

NextStock ==
    \E p \in Procs :
        \/ \E b \in {1} \cup MissingBookId, q \in 0..MaxQty : DecreaseCall(p, b, q)
        \/ SelectForUpdate(p)
        \/ CheckAndUpdate(p)
        \/ DecReturn(p)
        \/ DecFault(p)
        \/ DecExcept(p)

SpecStock == InitStock /\ [][NextStock]_vars

\* ------------------------------------ two racing create_order_from_cart calls
\* on carts of well-formed lines for existing books, the database never failing
InitOrder == InitWith(1..MaxStock, {995})

OrderCarts == CartsOf(Lines(BookIds, 1..MaxQty))

StepOrder(p) ==
    \/ PreValidateLine(p)
    \/ InsertOrder(p)
    \/ SelectForUpdate(p)
    \/ CheckAndUpdate(p)
    \/ DecReturn(p)
    \/ DecExcept(p)
    \/ InsertItem(p)
    \/ OrderCommit(p)
    \/ OrderExcept(p)

NextOrder ==
    \E p \in {1, 2} :
        \/ \E cart \in OrderCarts : OrderCall(p, "u1", "None", cart, Shipped)
        \/ StepOrder(p)
        \/ DeadlockVictim(p)

SpecOrder == InitOrder /\ [][NextOrder]_vars

\* ------------------------------------ create_order_from_cart on any input
\* (request 1), raced by an order of one line (request 2), the database
\* failing at any statement
InitFail ==
    /\ InitWith(0..MaxStock, {995})
    /\ books[2].stock_quantity = MaxStock

AnyCarts == {<<>>} \cup CartsOf(Lines(AnyBookId, 0..MaxQty))

RivalCarts == {<<l>> : l \in Lines(BookIds, 1..MaxQty)}

Blanks == {Shipped, [Shipped EXCEPT !["shipping_zip_code"] = <<" ">>]}

NextFail ==
    \/ \E cart \in AnyCarts, shipping_details \in Blanks :
            OrderCall(1, "u1", "None", cart, shipping_details)
    \/ \E cart \in RivalCarts : OrderCall(2, "None", "g@x.org", cart, Shipped)
    \/ \E p \in {1, 2} :
        \/ StepOrder(p)
        \/ DecFault(p)
        \/ OrderFault(p)

SpecFail == InitFail /\ [][NextFail]_vars

\* ------------------------------------ create_order_from_cart while an
\* administrator updates a book (a new price; a new stock or the loaded one)
InitPrice == InitWith({MaxStock}, Prices)

AdminPrices == {1245, 1255, 2000}

\* carts with two keys that stand for the same book ("1" and " 1")
SameBookCarts ==
    {c \in Lines(BookIds, 1..MaxQty) \X Lines(BookIds, 1..MaxQty) :
        c[1].book_id = c[2].book_id}

NextPrice ==
    \/ \E cart \in OrderCarts \cup SameBookCarts :
            OrderCall(1, "u1", "None", cart, Shipped)
    \/ StepOrder(1)
    \/ \E b \in BookIds : AdminRead(b)
    \/ \E price \in AdminPrices, stock_data \in {{}} \cup {{n} : n \in 0..MaxStock} :
            AdminSave({price}, stock_data)

SpecPrice == InitPrice /\ [][NextPrice]_vars

\* ------------------------------------ create_order_from_cart while an
\* administrator lowers the stock of a book or deletes a book
InitCatalog == InitWith({MaxStock}, {995})

NextCatalog ==
    \/ \E cart \in OrderCarts : OrderCall(1, "u1", "None", cart, Shipped)
    \/ StepOrder(1)
    \/ \E b \in BookIds : AdminRead(b)
    \/ \E n \in 0..MaxStock : AdminSave({}, {n})
    \/ AdminDelete

SpecCatalog == InitCatalog /\ [][NextCatalog]_vars

\* ------------------------------------ create_order_from_cart on any cart
\* and any shipping details: each required field absent, empty, white space
\* or text between white space
InitInput == InitWith({MaxStock}, {995})

InputCarts ==
    {<<>>} \cup {<<[book_id |-> b, quantity |-> 1]>> : b \in {1} \cup MissingBookId}

ShippingValues == {<<>>, <<" ">>, <<" ", "a", " ">>}

ShippingInputs ==
    UNION {[D -> ShippingValues] :
              D \in SUBSET {RequiredShippingFields[j] : j \in 1..Len(RequiredShippingFields)}}

\* user_id: None or the id of the logged-in user
UserIds == {"None", "u1"}

\* guest_email_for_order: None, an address, or text that is no address
GuestEmails == {"None", "g@x.org", "g.x.org"}

NextInput ==
    \/ \E cart \in InputCarts, shipping_details \in ShippingInputs,
          user_id \in UserIds, guest_email \in GuestEmails :
            OrderCall(1, user_id, guest_email, cart, shipping_details)
    \/ StepOrder(1)
    \/ DecFault(1)

SpecInput == InitInput /\ [][NextInput]_vars

\* ------------------------------------ the cart valuation, called twice on
\* the session cart, while an administrator changes a price or deletes a book
InitCart ==
    /\ InitWith({MaxStock}, Prices)
    /\ books[1].price = 995 /\ books[2].price = 1245

\* keys of the session cart: the ids of the two books, an id with no row, and
\* text that is no number
CartKeys == {<<"1">>, <<"2">>, <<"3">>, <<"x">>}

\* quantities of the session cart
CartValues ==
    {[type |-> "int", value |-> n] : n \in 0..MaxQty}
        \cup {Str(<<"2">>), Str(<<"x">>)}
        \cup {[type |-> "float", value |-> 15], [type |-> "NoneType", value |-> 0]}

CartEntries == [key : CartKeys, value : CartValues]

\* the dict has one value per key
CartSessions ==
    {<<>>} \cup {<<e>> : e \in CartEntries}
           \cup {c \in CartEntries \X CartEntries : c[1].key # c[2].key}

\* the second call is made on the cart map of the first, after it returned
ValueCalls ==
    \/ \E cart_session \in CartSessions : ValueCall(1, cart_session)
    \/ pc[1] = "done" /\ ValueCall(2, req[1].cart)

NextCart ==
    \/ ValueCalls
    \/ \E p \in {1, 2} : ValueLine(p) \/ ValueReturn(p)
    \/ \E b \in BookIds : AdminRead(b)
    \/ \E price \in AdminPrices : AdminSave({price}, {})
    \/ AdminDelete

SpecCart == InitCart /\ [][NextCart]_vars

\* ------------------------------------ the cart valuation when reading a
\* book may fail
NextCartFail ==
    \/ \E cart_session \in CartSessions : ValueCall(1, cart_session)
    \/ ValueLine(1)
    \/ ValueFault(1)
    \/ ValueReturn(1)
    \/ \E b \in BookIds : AdminRead(b)
    \/ AdminDelete

SpecCartFail == InitCart /\ [][NextCartFail]_vars

\* ------------------------------------ get_order_details by any requester,
\* for the order that a create_order_from_cart call commits or for an id that
\* no order has
InitDetails == InitWith({MaxStock}, {995})

OwnerIds == {"None", "u1", "u2"}

OwnerEmails == {"None", "", "g@x.org", " G@X.org ", "h@x.org"}

OrderIds == {1, 2}

NextDetails ==
    \/ \E user_id \in {"None", "u1"}, guest_email \in {"None", "g@x.org"} :
            OrderCall(1, user_id, guest_email, <<[book_id |-> 1, quantity |-> 1]>>, Shipped)
    \/ PreValidateLine(1)
    \/ InsertOrder(1)
    \/ SelectForUpdate(1)
    \/ CheckAndUpdate(1)
    \/ DecReturn(1)
    \/ InsertItem(1)
    \/ OrderCommit(1)
    \/ \E order_id \in OrderIds, user_id_for_auth \in OwnerIds,
          guest_email_for_auth \in OwnerEmails :
            GetOrderDetails(2, order_id, user_id_for_auth, guest_email_for_auth)

SpecDetails == InitDetails /\ [][NextDetails]_vars

\* ------------------------------------ one browser, of a guest or of a
\* logged-in user, fills its cart, checks out, places orders and asks for
\* confirmation pages, while an administrator updates the books
MaxOrders == 2     \* largest number of orders the browser tries to place

InitShop ==
    InitBrowser({MaxStock}, {995},
                {NoSession, [NoSession EXCEPT !.current_user = "u1"]})

\* the checkout form: the shipping fields filled in (the state in small
\* letters, the city between spaces) or the city blank; the guest e-mail an
\* address in capitals between spaces, or no address
ShopForms ==
    [shipping : {[Shipped EXCEPT !["shipping_city"] = <<" ", "a", " ">>],
                 [Shipped EXCEPT !["shipping_city"] = <<" ">>]},
     guest_email : {" G@X.org ", "g.x.org"}]

ShopKeys == {<<"1">>}

CartRequests ==
    \/ \E book_id_str \in ShopKeys, quantity \in 1..MaxQty : AddToCart(book_id_str, quantity)
    \/ \E book_id_str \in ShopKeys, quantity \in 0..MaxQty :
            UpdateCartQuantity(book_id_str, quantity)
    \/ \E book_id_str \in ShopKeys : RemoveFromCart(book_id_str)

CheckoutRequests ==
    \/ CheckoutCall
    \/ ValueLine(Worker)
    \/ ValueReturn(Worker)
    \/ CheckoutFinish

NextShop ==
    \/ CartRequests
    \/ CheckoutRequests
    \/ order_id_seq < MaxOrders /\ \E form \in ShopForms : PlaceOrderCall(form)
    \/ StepOrder(Worker)
    \/ PlaceOrderReturn
    \/ \E order_id \in 1..MaxOrders : ConfirmationRoute(order_id)
    \/ \E b \in BookIds : AdminRead(b)
    \/ \E stock_data \in {{}, {0}} : AdminSave({1245}, stock_data)

SpecShop == InitShop /\ [][NextShop]_vars

\* ------------------------------ one order while the administrator edits
\* the price of a book, and only the price
InitReprice == InitWith({MaxStock}, {995})

NextReprice ==
    \/ \E cart \in OrderCarts : OrderCall(1, "u1", "None", cart, Shipped)
    \/ PreValidateLine(1)
    \/ InsertOrder(1)
    \/ SelectForUpdate(1)
    \/ CheckAndUpdate(1)
    \/ DecReturn(1)
    \/ InsertItem(1)
    \/ OrderCommit(1)
    \/ \E b \in BookIds : AdminRead(b)
    \/ AdminSave({1245}, {})

SpecReprice == InitReprice /\ [][NextReprice]_vars

\* --------------------------------- place_order_route on a cart that the
\* cart routes have written, while statements of the order fail, the
\* administrator sets a stock to zero or deletes a book
Entry(key, quantity) == [key |-> key, value |-> [type |-> "int", value |-> quantity]]

PlaceCarts == {<<Entry(<<"1">>, 1)>>, <<Entry(<<"2">>, MaxQty), Entry(<<"1">>, 1)>>}

InitPlace ==
    InitBrowser({MaxStock}, {995},
                {[NoSession EXCEPT !.current_user = u, !.cart = cart] :
                    u \in {"None", "u1"}, cart \in PlaceCarts})

NextPlace ==
    \/ order_id_seq < MaxOrders /\ \E form \in ShopForms : PlaceOrderCall(form)
    \/ StepOrder(Worker)
    \/ DecFault(Worker)
    \/ OrderFault(Worker)
    \/ PlaceOrderReturn
    \/ \E b \in BookIds : AdminRead(b)
    \/ AdminSave({}, {0})
    \/ AdminDelete

SpecPlace == InitPlace /\ [][NextPlace]_vars

\* ------------------------------ checkout_page_route and place_order_route
\* on a cart that holds one entry for book 1, in stock, and one other entry:
\* for book 2, which the administrator may delete, with a quantity of zero
\* or one that is no number, or under a key that is no number
OddEntries ==
    {Entry(<<"2">>, 1),
     Entry(<<"2">>, 0),
     [key |-> <<"2">>, value |-> Str(<<"x">>)],
     Entry(<<"x">>, 1)}

CheckoutCarts ==
    {<<Entry(<<"1">>, 1), e>> : e \in OddEntries} \cup
    {<<e, Entry(<<"1">>, 1)>> : e \in OddEntries}

InitCheckout ==
    InitBrowser({MaxStock}, {995},
                {[NoSession EXCEPT !.current_user = u, !.cart = cart] :
                    u \in {"None", "u1"}, cart \in CheckoutCarts})

NextCheckout ==
    \/ CheckoutRequests
    \/ order_id_seq < MaxOrders /\ \E form \in ShopForms : PlaceOrderCall(form)
    \/ StepOrder(Worker)
    \/ PlaceOrderReturn
    \/ AdminRead(2)
    \/ AdminDelete

SpecCheckout == InitCheckout /\ [][NextCheckout]_vars

\* -------------------------- the owner of an order asks for its details
\* after the administrator has changed the price of a book or deleted a book
InitRecord == InitWith({MaxStock}, {995})

NextRecord ==
    \/ \E cart \in OrderCarts : OrderCall(1, "u1", "None", cart, Shipped)
    \/ StepOrder(1)
    \/ \E b \in BookIds : AdminRead(b)
    \/ AdminSave({1245}, {})
    \/ AdminDelete
    \/ GetOrderDetails(2, 1, "u1", "None")

SpecRecord == InitRecord /\ [][NextRecord]_vars

\* ---------------------------- the cart requests of one browser, for the
\* two books, a book that does not exist and a key that is no number, while
\* the administrator changes a stock
RouteKeys == {<<"1">>, <<"2">>, <<"3">>, <<"x">>}

NextCartRoutes ==
    \/ \E book_id_str \in RouteKeys, quantity \in 0..MaxQty + 1 :
            AddToCart(book_id_str, quantity)
    \/ \E book_id_str \in RouteKeys, quantity \in -1..MaxQty + 1 :
            UpdateCartQuantity(book_id_str, quantity)
    \/ \E book_id_str \in RouteKeys : RemoveFromCart(book_id_str)
    \/ \E b \in BookIds : AdminRead(b)
    \/ \E stock_quantity \in 0..MaxStock : AdminSave({}, {stock_quantity})

InitCartRoutes == InitBrowser({MaxStock}, {995}, {NoSession})

SpecCartRoutes == InitCartRoutes /\ [][NextCartRoutes]_vars

\* ============================================================== claims
RECURSIVE Sum(_, _)
\* the sum of f[x] over the x of S
Sum(f, S) ==
    IF S = {} THEN 0
    ELSE LET x == CHOOSE y \in S : TRUE IN f[x] + Sum(f, S \ {x})

\* the calls of decrease_book_stock on book b that returned True
Granted(b) ==
    {p \in Procs : pc[p] = "done" /\ result[p] = "ok" /\ dec[p].book_id = b}

GrantedQty(b) == Sum([p \in Granted(b) |-> dec[p].quantity_to_decrease], Granted(b))

\* C1: under any interleaving of concurrent decrease_book_stock calls the
\* stock of a book (committed, and as written by any open transaction) is
\* never negative, and the quantities of the calls that succeeded add up to
\* no more than the stock the book had before the calls
StockNeverNegative ==
    \A b \in BookIds :
        /\ books[b].stock_quantity >= 0
        /\ \A p \in Procs : b \in DOMAIN tx[p].stock => tx[p].stock[b] >= 0
        /\ GrantedQty(b) <= stock0[b]

\* two calls on the same book have ended, one granted and one refused under
\* the lock for lack of the stock the other took
StockRaceSettled ==
    \E p, q \in Procs :
        /\ p # q /\ pc[p] = "done" /\ pc[q] = "done"
        /\ dec[p].book_id = 1 /\ dec[q].book_id = 1
        /\ result[p] = "ok" /\ result[q] = "Validation"
        /\ dec[q].found
        /\ dec[q].quantity_to_decrease <= stock0[1]

\* C7: a call with a positive quantity is decided from the row as it is
\* under the lock: NotFound if there is no row, Validation if the quantity
\* exceeds the stock, else the stock becomes stock - quantity (a quantity
\* equal to the stock is granted); a failure leaves the stock as it was; the
\* only other outcome is a driver failure (Database)
DecisionUnderLock(p) ==
    LET b == dec[p].book_id
        q == dec[p].quantity_to_decrease
        exists == b \in DOMAIN books
        cur == IF exists THEN books[b].stock_quantity ELSE 0
    IN
    (pc[p] = "dec_update" /\ pc'[p] # "dec_update") =>
        /\ books' = books
        /\ \/ dec'[p].error = "Database" /\ tx'[p] = tx[p]
           \/ ~exists /\ dec'[p].error = "NotFound" /\ tx'[p] = tx[p]
           \/ exists /\ q > cur /\ dec'[p].error = "Validation" /\ tx'[p] = tx[p]
           \/ /\ exists /\ q <= cur
              /\ pc'[p] = "dec_return" /\ dec'[p].error = "none"
              /\ tx'[p].stock[b] = cur - q

OutcomeApplied(p) ==
    LET b == dec[p].book_id
        q == dec[p].quantity_to_decrease
    IN
    (pc[p] \in {"dec_return", "dec_except"} /\ pc'[p] = "done") =>
        /\ result'[p] \in {"ok", "NotFound", "Validation", "Database"}
        /\ result'[p] = "ok" =>
                books' = [books EXCEPT ![b].stock_quantity = @ - q]
        /\ result'[p] # "ok" => books' = books /\ result'[p] = dec[p].error

DecreaseOutcomes ==
    [][\A p \in Procs : DecisionUnderLock(p) /\ OutcomeApplied(p)]_vars

\* a call that asked for exactly the stock it found was granted it
LastCopiesGranted ==
    \E p \in Procs :
        /\ pc[p] = "done" /\ result[p] = "ok"
        /\ dec[p].quantity_to_decrease = dec[p].current_stock
        /\ books[dec[p].book_id].stock_quantity = 0

\* C9: a call that manages its own connection ends with no connection open,
\* no row lock held and nothing uncommitted; the committed stock is the
\* initial stock less the quantities of the calls that succeeded, so every
\* success is committed and every failure left the stock unchanged
DecreaseEndsClean ==
    /\ \A p \in Procs :
          pc[p] = "done" =>
             /\ conn[p] # "open"
             /\ tx[p] = EmptyTx
             /\ \A b \in BookIds : lock[b] # p
             /\ result[p] = "ok" => conn[p] = "closed"
    /\ \A b \in BookIds : books[b].stock_quantity = stock0[b] - GrantedQty(b)

\* a call has ended by raising after it had locked the row, and another by
\* returning True
DecreaseEndedBothWays ==
    \E p, q \in Procs :
        /\ pc[p] = "done" /\ result[p] \in {"Validation", "Database"}
        /\ dec[p].found /\ conn[p] = "closed"
        /\ pc[q] = "done" /\ result[q] = "ok" /\ conn[q] = "closed"

\* ---------------------------------------------- create_order_from_cart
ItemsOfOrder(order_id) == {i \in order_items : i.order_id = order_id}

ItemsOfBook(b) == {i \in order_items : i.book_id = b}

\* the quantity of book b in the validated lines of request p
QtyOf(p, b) ==
    LET ks == {k \in 1..Len(ord[p].items) : ord[p].items[k].book_id = b}
    IN Sum([k \in ks |-> ord[p].items[k].quantity], ks)

\* the requests, other than p, that returned an Order
Succeeded(p) == {q \in Procs \ {p} : result[q] = "ok"}

\* order o is owned by the caller of request p
Owns(p, o) ==
    /\ o.user_id = req[p].user_id
    /\ o.guest_email = GuestEmailColumn(req[p].user_id, req[p].guest_email)

\* C2: after a create_order_from_cart call has raised, at whatever step, the
\* committed tables hold no orders row and no order_items row of that call,
\* and the stock of every book is the initial stock less what the calls that
\* succeeded took: the failed call changed nothing
FailedOrderLeavesNothing ==
    \A p \in Procs :
        (pc[p] = "done" /\ result[p] # "ok") =>
            /\ \A o \in orders : ~Owns(p, o) /\ o.order_id # ord[p].order_id
            /\ \A i \in order_items : i.order_id # ord[p].order_id
            /\ \A b \in BookIds :
                  books[b].stock_quantity =
                      stock0[b] - Sum([q \in Succeeded(p) |-> QtyOf(q, b)], Succeeded(p))

\* a call has raised at the locked decrement of its second line, after its
\* orders row, its first decrement and its first order_items row
OrderFailedAtSecondLine ==
    /\ pc[1] = "done" /\ result[1] = "Validation"
    /\ ord[1].order_id # 0 /\ ord[1].idx = 2
    /\ result[2] = "ok"

\* C3: in every committed state, for every book, initial stock minus current
\* stock is the sum of the quantities of the committed order items of the
\* book; every order item belongs to a committed order, and the items of an
\* order that was returned are exactly the lines of its cart
OrdersMatchStock ==
    /\ \A b \in BookIds :
          stock0[b] - books[b].stock_quantity =
              Sum([i \in ItemsOfBook(b) |-> i.quantity], ItemsOfBook(b))
    /\ \A i \in order_items : \E o \in orders : o.order_id = i.order_id
    /\ \A o \in orders :
          \E p \in Procs :
              /\ result[p] = "ok" /\ ord[p].order_id = o.order_id
              /\ {[book_id |-> i.book_id, quantity |-> i.quantity] :
                      i \in ItemsOfOrder(o.order_id)}
                   = {req[p].cart[k] : k \in 1..Len(req[p].cart)}

\* one order of two lines is committed and the other was rolled back after
\* its first decrement
OneOrderKeptOneUndone ==
    \E p, q \in Procs :
        /\ result[p] = "ok" /\ Len(req[p].cart) = 2
        /\ pc[q] = "done" /\ result[q] = "Validation" /\ ord[q].idx = 2

\* C8: a step of decrease_book_stock on a connection supplied by the caller
\* leaves that connection open and commits nothing; the transaction keeps its
\* orders row, its order items, its earlier stock writes and its row locks
DecKeepsCallersTransaction(p) ==
    (/\ pc[p] \in {"dec_select", "dec_update", "dec_return", "dec_except"}
     /\ ~dec[p].manage_conn_locally
     /\ pc'[p] # pc[p]) =>
        /\ conn[p] = "open" /\ conn'[p] = "open"
        /\ books' = books /\ orders' = orders /\ order_items' = order_items
        /\ tx'[p].orders = tx[p].orders
        /\ tx'[p].items = tx[p].items
        /\ \A b \in DOMAIN tx[p].stock : b \in DOMAIN tx'[p].stock
        /\ \A b \in BookIds : lock[b] = p => lock'[b] = p

SuppliedConnectionUntouched ==
    [][\A p \in Procs : DecKeepsCallersTransaction(p)]_vars

\* decrease_book_stock has raised inside an order's transaction and the
\* transaction is still open, with its orders row and its first decrement
DecRaisedInsideTransaction ==
    \E p \in Procs :
        /\ pc[p] = "except"
        /\ ord[p].error \in {"Validation", "Database"}
        /\ conn[p] = "open"
        /\ tx[p].orders # {} /\ tx[p].items # {} /\ tx[p].stock # <<>>

\* the sum of quantity * unit_price_at_purchase over the items of an order, in
\* thousandths
ItemsTotal(order_id) ==
    LET S == ItemsOfOrder(order_id)
    IN Sum([i \in S |-> i.quantity * i.unit_price_at_purchase], S)

\* C4: the total_amount of every committed order, in hundredths, is the sum
\* of quantity * unit_price_at_purchase over its order items rounded half-up
\* to hundredths, whatever an administrator did to the prices meanwhile
TotalIsRoundedSum ==
    \A o \in orders :
        /\ 10 * o.total_amount <= ItemsTotal(o.order_id) + 5
        /\ ItemsTotal(o.order_id) + 5 < 10 * o.total_amount + 10

\* an order is committed whose sum ends in half a hundredth and whose book
\* has another price by now
OrderPricedBeforeChange ==
    \E o \in orders :
        /\ ItemsTotal(o.order_id) % 10 = 5
        /\ \E i \in ItemsOfOrder(o.order_id) :
              books[i.book_id].price # i.unit_price_at_purchase

\* both requests have returned, both passed the pre-validation, and both
\* asked the same quantity q of book b, whose initial stock s has q <= s < 2q
RacedForLastCopies(b) ==
    /\ pc[1] = "done" /\ pc[2] = "done"
    /\ \A p \in {1, 2} : Len(ord[p].items) = Len(req[p].cart)
    /\ QtyOf(1, b) > 0
    /\ QtyOf(2, b) = QtyOf(1, b)
    /\ QtyOf(1, b) <= stock0[b]
    /\ stock0[b] < 2 * QtyOf(1, b)

\* C5: of two racing orders for the last copies of a book, exactly one
\* commits; the other raises from the locked decrement after its orders row
\* was inserted, and nothing of it stays: the only order and the only order
\* items are the winner's, and every stock is the initial one less the
\* winner's cart
OneOfTwoRacingOrdersCommits ==
    \A b \in BookIds :
        RacedForLastCopies(b) =>
            \E w, l \in {1, 2} :
                /\ w # l
                /\ result[w] = "ok"
                /\ result[l] \in {"Validation", "Database"}
                /\ ord[l].order_id # 0
                /\ tx[l] = EmptyTx
                /\ \A o \in orders : o.order_id = ord[w].order_id
                /\ \A i \in order_items : i.order_id = ord[w].order_id
                /\ books[b].stock_quantity = stock0[b] - QtyOf(w, b)
                /\ \A c \in BookIds :
                      books[c].stock_quantity = stock0[c] - QtyOf(w, c)

\* the loser of such a race had decremented an earlier line of its cart
LoserUndidEarlierLine ==
    \E b \in BookIds :
        /\ RacedForLastCopies(b)
        /\ \E l \in {1, 2} :
              /\ result[l] = "Validation"
              /\ ord[l].idx = 2
              /\ ord[l].items[2].book_id = b

\* C6: no reachable state has two order transactions each holding the row
\* lock the other waits for
NoCircularWait ==
    ~ \E p, q \in Procs : WaitsFor(p, q) /\ WaitsFor(q, p)

\* C10: an iteration of the pre-validation loop on a line that asks more than
\* the committed stock raises OrderProcessing, and on a line whose book has no
\* row NotFound (DatabaseError if the read itself fails); a call that leaves
\* the loop by an error has no connection, no order id, no lock and no
\* pending write, and returns that error with the tables as they were
PreValidationStep(p) ==
    LET line == req[p].cart[ord[p].idx] IN
    (pc[p] = "prevalidate" /\ ord'[p] # ord[p]) =>
        /\ (/\ line.quantity > 0
            /\ line.book_id \in DOMAIN books
            /\ line.quantity > books[line.book_id].stock_quantity)
              => /\ pc'[p] = "except"
                 /\ ord'[p].error \in {"OrderProcessing", "Database"}
        /\ (line.quantity > 0 /\ line.book_id \notin DOMAIN books)
              => /\ pc'[p] = "except"
                 /\ ord'[p].error \in {"NotFound", "Database"}
        /\ pc'[p] = "except" =>
              /\ conn'[p] = "none" /\ tx'[p] = EmptyTx
              /\ ord'[p].order_id = 0
              /\ \A b \in BookIds : lock'[b] # p
              /\ dbVars' = dbVars /\ order_id_seq' = order_id_seq

PreValidationRaise(p) ==
    (pc[p] = "except" /\ conn[p] = "none" /\ pc'[p] # pc[p]) =>
        /\ pc'[p] = "done"
        /\ result'[p] = ord[p].error
        /\ conn'[p] = "none" /\ tx'[p] = EmptyTx
        /\ dbVars' = dbVars /\ lock' = lock

PreValidationFailsClean ==
    [][\A p \in Procs : PreValidationStep(p) /\ PreValidationRaise(p)]_vars

\* one call was refused for a missing book and the other for a shortage; no
\* order exists and no stock moved
BothRefusedInPreValidation ==
    /\ pc[1] = "done" /\ result[1] = "NotFound"
    /\ pc[2] = "done" /\ result[2] = "OrderProcessing"
    /\ conn[1] = "none" /\ conn[2] = "none"
    /\ orders = {} /\ order_id_seq = 0

\* ---------------------------------------------- errors of the locked decrement
\* the row fetched under the lock has less stock than the line asks
ShortfallUnderLock(p) ==
    /\ pc[p] = "dec_update"
    /\ ~dec[p].manage_conn_locally
    /\ dec[p].found
    /\ dec[p].quantity_to_decrease > dec[p].current_stock

\* the way of a shortfall found under the lock to the caller of
\* create_order_from_cart: decrease_book_stock raises ValidationError, and the
\* call returns an error of the given kind
LockedShortfallSurfacesAs(p, kind) ==
    /\ (ShortfallUnderLock(p) /\ pc'[p] # pc[p]) =>
          pc'[p] = "dec_except" /\ dec'[p].error = "Validation"
    /\ (/\ pc[p] = "dec_except" /\ ~dec[p].manage_conn_locally
        /\ dec[p].error = "Validation" /\ pc'[p] # pc[p]) =>
          pc'[p] = "except" /\ ord'[p].error = "Validation" /\ conn'[p] = "open"
    /\ (/\ pc[p] = "except" /\ conn[p] = "open"
        /\ ord[p].error = "Validation" /\ pc'[p] # pc[p]) =>
          pc'[p] = "done" /\ result'[p] = kind

KnownKinds == {"Validation", "NotFound"}

KnownKindReraised(p) ==
    /\ (/\ pc[p] = "dec_except" /\ ~dec[p].manage_conn_locally
        /\ dec[p].error \in KnownKinds /\ pc'[p] # pc[p]) =>
          /\ pc'[p] = "except"
          /\ ord'[p].error = dec[p].error
          /\ result'[p] = "none"
          /\ conn'[p] = "open"
    /\ (/\ pc[p] = "except" /\ conn[p] = "open"
        /\ ord[p].error \in KnownKinds /\ pc'[p] # pc[p]) =>
          /\ pc'[p] = "done"
          /\ result'[p] = ord[p].error
          /\ tx'[p] = EmptyTx
          /\ conn'[p] = "closed"
          /\ \A b \in BookIds : lock'[b] # p
          /\ books' = books
          /\ \A o \in orders' : o.order_id # ord[p].order_id
          /\ \A i \in order_items' : i.order_id # ord[p].order_id

BlankIn(shipping_details, field_key) ==
    \/ field_key \notin DOMAIN shipping_details
    \/ \A i \in 1..Len(shipping_details[field_key]) : shipping_details[field_key][i] = " "

BlankFields(shipping_details) ==
    {k \in 1..Len(RequiredShippingFields) :
        BlankIn(shipping_details, RequiredShippingFields[k])}

\* the call of request p with an empty cart or a blank required field ends at
\* once with Validation and nothing else changes; the error names no field
\* for an empty cart, whatever the shipping details, and else a blank field;
\* any other call goes on to the pre-validation
EntryCheck(p) ==
    LET cart == req'[p].cart
        blank == BlankFields(req'[p].shipping_details)
    IN
    (pc[p] = "idle" /\ pc'[p] # "idle") =>
        IF cart = <<>> \/ blank # {}
        THEN /\ pc'[p] = "done"
             /\ result'[p] = "Validation"
             /\ cart = <<>> => ord'[p].errors = "none"
             /\ cart # <<>> =>
                   \E k \in blank : ord'[p].errors = RequiredShippingFields[k]
             /\ UNCHANGED <<dbVars, order_id_seq, item_id_seq, lock, conn, tx, dec>>
        ELSE pc'[p] = "prevalidate" /\ result'[p] = "none"

\* C13: create_order_from_cart with an empty cart or a blank required
\* shipping field fails with Validation before any book is read or any
\* transaction is opened, the persistent state unchanged; the empty-cart check
\* comes first
BadInputRefusedAtEntry ==
    [][\A p \in Procs : EntryCheck(p)]_vars

\* a call with a cart was refused for a city of white space only
WhiteSpaceCityRefused ==
    /\ pc[1] = "done" /\ result[1] = "Validation"
    /\ req[1].cart # <<>>
    /\ ord[1].errors = "shipping_city"
    /\ "shipping_city" \in DOMAIN req[1].shipping_details
    /\ req[1].shipping_details["shipping_city"] = <<" ">>
    /\ conn[1] = "none" /\ orders = {}

\* ---------------------------------------------- the owner of an order
\* C14: every committed order has exactly one owner: a user_id and no
\* guest_email, or no user_id and a guest_email that is a valid address
EveryOrderHasOneOwner ==
    \A o \in orders :
        \/ o.user_id # "None" /\ o.guest_email = "None"
        \/ o.user_id = "None" /\ o.guest_email \in ValidEmails

\* ---------------------------------------------- what a successful order commits
\* the quantity of book b in a cart
CartQty(cart, b) ==
    LET ks == {k \in 1..Len(cart) : cart[k].book_id = b}
    IN Sum([k \in ks |-> cart[k].quantity], ks)

\* an iteration of the pre-validation that accepts a line notes the line and
\* the price the book has at that moment
LineNoted(p) ==
    LET line == req[p].cart[ord[p].idx]
        n == Len(ord'[p].items)
    IN
    (pc[p] = "prevalidate" /\ Len(ord'[p].items) # Len(ord[p].items)) =>
        /\ n = ord[p].idx
        /\ ord'[p].items[n].book_id = line.book_id
        /\ ord'[p].items[n].quantity = line.quantity
        /\ ord'[p].items[n].unit_price_at_purchase = books[line.book_id].price

\* the step in which the call succeeds commits one order, one item per line
\* of the cart and the decrements of the cart, and nothing else
OrderCommitted(p) ==
    LET cart == req[p].cart
        new_orders == orders' \ orders
        new_items == order_items' \ order_items
    IN
    (pc[p] # "done" /\ pc'[p] = "done" /\ result'[p] = "ok") =>
        /\ Cardinality(new_orders) = 1
        /\ \A o \in new_orders :
              /\ o.order_id = ord[p].order_id
              /\ o.status = "Pending Payment"
              /\ \A i \in new_items : i.order_id = o.order_id
        /\ Cardinality(new_items) = Len(cart)
        /\ \A k \in 1..Len(cart) :
              \E i \in new_items :
                  /\ i.book_id = cart[k].book_id
                  /\ i.quantity = cart[k].quantity
                  /\ i.unit_price_at_purchase = ord[p].items[k].unit_price_at_purchase
        /\ orders \subseteq orders' /\ order_items \subseteq order_items'
        /\ DOMAIN books' = DOMAIN books
        /\ \A b \in DOMAIN books :
              /\ books'[b].stock_quantity = books[b].stock_quantity - CartQty(cart, b)
              /\ books'[b].price = books[b].price

\* C15: a successful create_order_from_cart commits exactly one order, with
\* status "Pending Payment", and one order item per cart line with the line's
\* quantity and the price read in the pre-validation; the stock of each
\* ordered book goes down by its line's quantity and no other stock changes
SuccessCommitsTheCart ==
    [][\A p \in Procs : LineNoted(p) /\ OrderCommitted(p)]_vars

\* an order for two copies of one book and one of the other is committed
\* with no administrator at work
TwoLinesOrdered ==
    /\ result[1] = "ok" /\ adm.pc = "idle"
    /\ Len(req[1].cart) = 2
    /\ req[1].cart[1].quantity = 2 /\ req[1].cart[2].quantity = 1
    /\ \A k \in {1, 2} :
          books[req[1].cart[k].book_id].stock_quantity
              = stock0[req[1].cart[k].book_id] - req[1].cart[k].quantity

\* ---------------------------------------------- the cart valuation
\* c hundredths is a thousandths rounded half-up
IsHalfUp(c, a) == 10 * c <= a + 5 /\ a + 5 < 10 * c + 10

RECURSIVE ExactSum(_)
\* the sum of unit_price * quantity over the lines, in thousandths
ExactSum(items) ==
    IF items = <<>> THEN 0
    ELSE Head(items).unit_price * Head(items).quantity + ExactSum(Tail(items))

\* C16: the valuation returns, for each line, total_price = price * quantity
\* rounded half-up to hundredths, and a grand_total that is the exact sum of
\* price * quantity over the lines rounded half-up once
ValuationRoundsOnce ==
    \A p \in Procs :
        pc[p] = "done" =>
            LET items == result[p].cart_items_detailed IN
            /\ \A k \in 1..Len(items) :
                  IsHalfUp(items[k].total_price, items[k].unit_price * items[k].quantity)
            /\ IsHalfUp(result[p].grand_total, ExactSum(items))

\* a valuation of two lines whose grand_total is not the sum of the rounded
\* totals of its lines
RoundedLinesDoNotAddUp ==
    \E p \in Procs :
        /\ pc[p] = "done"
        /\ Len(result[p].cart_items_detailed) = 2
        /\ result[p].grand_total # RoundedSum(result[p].cart_items_detailed)

\* the text of an integer: digits between white space
IsIntegerText(s) ==
    /\ \E i \in 1..Len(s) : s[i] # " "
    /\ \A i \in 1..Len(s) : s[i] \in DOMAIN DigitValue \cup {" "}
    /\ \A i, j \in 1..Len(s) :
          (i < j /\ s[i] # " " /\ s[j] # " ") => \A k \in i..j : s[k] # " "

\* the integer a session value stands for, if any
IsInteger(x) ==
    \/ x.type = "int"
    \/ x.type = "str" /\ IsIntegerText(x.value)

\* an entry that the valuation has to drop: an id or a quantity that is no
\* integer, a quantity <= 0, or a book that has no row
ToBeDropped(entry) ==
    \/ ~IsIntegerText(entry.key)
    \/ ~IsInteger(entry.value)
    \/ PyInt(entry.value).value <= 0
    \/ PyInt(Str(entry.key)).value \notin DOMAIN books

\* an iteration of the loop goes on to the next entry or to the return, and
\* appends no line for an entry that has to be dropped
EntryDropped(p) ==
    (pc[p] = "value_line" /\ ord'[p] # ord[p]) =>
        /\ pc'[p] \in {"value_line", "value_return"}
        /\ ord'[p].idx = ord[p].idx + 1
        /\ ToBeDropped(req[p].cart[ord[p].idx]) => ord'[p].items = ord[p].items

\* C17: the valuation raises for no cart map; an entry with a non-integer id
\* or quantity, a quantity <= 0 or a missing book is dropped and the others
\* are valued
MalformedEntriesDropped ==
    [][\A p \in Procs : EntryDropped(p)]_vars

\* C18: a step of the valuation changes no book, order or order item and
\* leaves the cart map as it was passed
ValuationStepReadsOnly(p) ==
    (pc'[p] # pc[p] \/ ord'[p] # ord[p]) =>
        /\ dbVars' = dbVars
        /\ pc[p] # "idle" => req' = req
        /\ \A q \in Procs \ {p} : req'[q] = req[q]

DetailsRead(p) == pc[p] = "idle" /\ pc'[p] = "done" /\ req'[p].order_id # 0

RowsAsked(p) == {o \in orders : o.order_id = req'[p].order_id}

Refused(p) == result'[p] \in {"Authorization", "Database"} /\ ord'[p].items = <<>>

\* the call on an existing order: refused for a user_id that is not the
\* order's, for a guest_email when the order is a user's, and for no identity
\* at all; the order goes only to the user_id it has, or, with no user_id on
\* either side, to the guest_email it has
OwnerOnly(p) ==
    LET user_id_for_auth == req'[p].user_id
        guest_email_for_auth == req'[p].guest_email
    IN
    DetailsRead(p) =>
        \A o \in RowsAsked(p) :
            /\ (user_id_for_auth # "None" /\ o.user_id # user_id_for_auth) => Refused(p)
            /\ (/\ user_id_for_auth = "None" /\ guest_email_for_auth # "None"
                /\ o.user_id # "None") => Refused(p)
            /\ (user_id_for_auth = "None" /\ guest_email_for_auth = "None") => Refused(p)
            /\ (/\ user_id_for_auth = "None" /\ guest_email_for_auth # "None"
                /\ o.guest_email # "None"
                /\ StripLower[o.guest_email] # StripLower[guest_email_for_auth])
                  => Refused(p)
            /\ result'[p] = "ok" => ord'[p].items = <<o>>

\* C19: get_order_details gives an existing order only to its owner and
\* fails with Authorization (DatabaseError if the database fails) for another
\* user_id, for a guest_email asking for a user's order, and for no identity
DetailsOnlyToOwner ==
    [][\A p \in Procs : OwnerOnly(p)]_vars

\* a logged-in user was refused the order of a guest
UserRefusedGuestOrder ==
    /\ pc[2] = "done" /\ result[2] = "Authorization"
    /\ req[2].user_id = "u1"
    /\ \E o \in orders :
          /\ o.order_id = req[2].order_id
          /\ o.user_id = "None" /\ o.guest_email = "g@x.org"

\* C20: get_order_details for an order_id that no order has fails with
\* NotFound (DatabaseError if the database fails) whoever asks, also with no
\* identity at all
MissingOrderNotFound ==
    [][\A p \in Procs :
          (DetailsRead(p) /\ RowsAsked(p) = {}) =>
              result'[p] \in {"NotFound", "Database"}]_vars

\* a requester without identity got NotFound for an id that no order has,
\* while another order exists
NobodyAskedMissingOrder ==
    /\ pc[2] = "done" /\ result[2] = "NotFound"
    /\ req[2].order_id = 2
    /\ req[2].user_id = "None" /\ req[2].guest_email = "None"
    /\ orders # {}

\* the call is made with a guest_email and no user_id
GuestEmailOnly(p) ==
    DetailsRead(p) /\ req'[p].user_id = "None" /\ req'[p].guest_email # "None"

\* the order is a guest's and its stored guest_email is the given text, letter
\* case and outer white space apart
StoredEmailIs(o, guest_email_for_auth) ==
    /\ o.user_id = "None"
    /\ o.guest_email # "None"
    /\ StripLower[o.guest_email] = StripLower[guest_email_for_auth]

\* C21: get_order_details with a guest_email only succeeds exactly when the
\* order has no user_id and its stored guest_email is the given one, letter
\* case ignored (unless the database fails); an order stored without
\* guest_email is returned to no guest_email requester
GuestEmailMatchesStored ==
    [][\A p \in Procs :
          GuestEmailOnly(p) =>
              \A o \in RowsAsked(p) :
                  /\ result'[p] = "ok" => StoredEmailIs(o, req'[p].guest_email)
                  /\ StoredEmailIs(o, req'[p].guest_email)
                        => result'[p] \in {"ok", "Database"}]_vars

\* C22: a committed order and its order items are never changed or deleted
\* by what happens afterwards (further orders, confirmation pages and their
\* get_order_details, cart requests, checkout pages, admin_update_book):
\* every committed row, with its unit_price_at_purchase and quantity, is
\* still there after every step
CommittedOrdersKept ==
    [][orders \subseteq orders' /\ order_items \subseteq order_items']_vars

\* the browser got the confirmation page of its second order, whose item
\* has the new price, while the item of the first order has the price the
\* administrator replaced
SecondOrderAfterReprice ==
    /\ web.last = "confirmation" /\ web.response = "ok" /\ web.order_id = 2
    /\ adm.pc = "done"
    /\ \E i, j \in order_items :
          /\ i.order_id = 1 /\ j.order_id = 2 /\ i.book_id = j.book_id
          /\ i.unit_price_at_purchase # books[i.book_id].price
          /\ j.unit_price_at_purchase = books[j.book_id].price

\* C23: the stock_quantity of an existing book is written only by the
\* locked decrement of decrease_book_stock: whenever the committed stock of
\* a book changes, it is the commit of a transaction that holds the book's
\* row lock and the new value is what that transaction computed under the
\* lock, less than before and not below zero; so no committed decrement is
\* replaced by a value read before it
StockWrittenOnlyUnderLock ==
    [][\A b \in DOMAIN books \cap DOMAIN books' :
          /\ books'[b].stock_quantity >= 0
          /\ books'[b].stock_quantity # books[b].stock_quantity =>
                \E p \in Procs :
                    /\ lock[b] = p /\ b \in DOMAIN tx[p].stock
                    /\ books'[b].stock_quantity = tx[p].stock[b]
                    /\ books'[b].stock_quantity < books[b].stock_quantity]_vars

\* a step in which a confirmation request of a guest's browser is answered
GuestConfirmationStep ==
    /\ session.current_user = "None"
    /\ web.route = "none" /\ web'.route = "none" /\ web'.last = "confirmation"
    /\ <<web, session>>' # <<web, session>>

\* C24: the confirmation page of a guest is one-shot: the page is rendered
\* only for the order the session names as just placed, rendering it removes
\* just_placed_order_id and guest_order_email from the session, and a request
\* for an order whose page was rendered before is refused with Authorization
GuestConfirmationOnce ==
    [][GuestConfirmationStep =>
          /\ web'.response = "ok" =>
                /\ web'.order_id = session.just_placed_order_id
                /\ \E o \in orders :
                      /\ o.order_id = web'.order_id /\ o.user_id = "None"
                      /\ o.guest_email = session.guest_order_email
                /\ session'.just_placed_order_id = 0
                /\ session'.guest_order_email = "None"
          /\ web'.order_id \in web.shown => web'.response = "Authorization"
          /\ web'.response # "ok" => session' = session]_vars

\* the guest saw the page of the first order, placed a second order, and is
\* refused the page of the first
GuestRefusedSecondLook ==
    /\ session.current_user = "None"
    /\ web.last = "confirmation" /\ web.response = "Authorization"
    /\ web.order_id = 1 /\ 1 \in web.shown
    /\ session.just_placed_order_id = 2

\* C25: place_order_route takes the cart out of the session exactly when
\* create_order_from_cart returned an order: after a request that ended with
\* the redirect to the confirmation page the session cart is empty and the
\* order is committed; while a request is handled, and after one that was
\* refused by the route or in which create_order_from_cart raised, the
\* session cart is the cart the request found
CartClearedOnlyOnSuccess ==
    web.last = "place_order" =>
        IF web.route = "none" /\ web.response = "confirmation"
        THEN /\ session.cart = <<>>
             /\ \E o \in orders : o.order_id = web.order_id
        ELSE session.cart = web.cart

\* create_order_from_cart failed after the decrement of the first line, the
\* cart of two entries is still in the session
CartKeptAfterRollback ==
    /\ web.last = "place_order" /\ web.route = "none"
    /\ web.response \in {"Validation", "NotFound", "OrderProcessing"}
    /\ Len(session.cart) = 2
    /\ order_id_seq = 1 /\ orders = {}

\* C26: the row lock that a decrement of create_order_from_cart took on a
\* book stays with that call until its transaction commits or is rolled
\* back: as long as the transaction holds a stock written for the book, the
\* call has the book's lock, no other transaction gets the lock or writes a
\* stock for the book in the next step, the committed row changes only by
\* this transaction's commit, and the lock is given up only in the step that
\* ends the transaction and closes the connection
LockHeldUntilOrderEnds ==
    [][\A p \in Procs, b \in BookIds :
          b \in DOMAIN tx[p].stock =>
              /\ lock[b] = p
              /\ \A q \in Procs \ {p} : lock'[b] # q /\ b \notin DOMAIN tx'[q].stock
              /\ lock'[b] # p => tx'[p] = EmptyTx /\ conn'[p] = "closed"
              /\ books'[b] # books[b] =>
                    /\ books'[b].stock_quantity = tx[p].stock[b]
                    /\ tx'[p] = EmptyTx]_vars

\* an order waits at its SELECT ... FOR UPDATE for a book that the other
\* order has decremented and not yet committed
OrderWaitsForDecrementedBook ==
    \E p, q \in Procs, b \in BookIds :
        /\ p # q
        /\ b \in DOMAIN tx[p].stock /\ pc[p] \in {"insert_item", "dec_select", "commit"}
        /\ pc[q] = "dec_select" /\ dec[q].book_id = b

\* the entries of the cart that name a book of the catalog by an integer id
\* and ask for an integer quantity of at least one that is in stock
ValidEntries(cart) ==
    {k \in 1..Len(cart) :
        /\ ~ToBeDropped(cart[k])
        /\ PyInt(cart[k].value).value
              <= stock0[PyInt(Str(cart[k].key)).value]}

\* C27: one corrupted entry of the session cart next to a valid entry that
\* is in stock does not keep the valid rest from being ordered: a
\* place_order request with valid shipping data (and guest e-mail) that
\* follows a checkout page request ends with the redirect to the
\* confirmation page of a committed order whose items are the valid entries
CorruptedEntryNoObstacle ==
    (/\ web.last = "place_order" /\ web.route = "none"
     /\ web.prev[1] = "checkout" /\ web.prev[2] # "Error"
     /\ web.response \notin {"guest_email", "shipping"}
     /\ ValidEntries(web.cart) # {}
     /\ Cardinality(ValidEntries(web.cart)) = Len(web.cart) - 1) =>
        /\ web.response = "confirmation"
        /\ {[book_id |-> i.book_id, quantity |-> i.quantity] :
                i \in ItemsOfOrder(web.order_id)}
             = {[book_id |-> PyInt(Str(web.cart[k].key)).value,
                 quantity |-> PyInt(web.cart[k].value).value] :
                    k \in ValidEntries(web.cart)}

\* C28: an authorized requester gets from get_order_details every order
\* item committed for the order, in ascending order_item_id, also after a
\* book of the order was modified or deleted
EveryItemReturned ==
    [][\A p \in Procs :
          (DetailsRead(p) /\ result'[p] = "ok") =>
              LET item_rows == ord'[p].item_rows IN
              /\ {item_rows[k] : k \in 1..Len(item_rows)} = ItemsOfOrder(req'[p].order_id)
              /\ Len(item_rows) = Cardinality(ItemsOfOrder(req'[p].order_id))
              /\ \A k \in 1..Len(item_rows) - 1 :
                    item_rows[k].order_item_id < item_rows[k + 1].order_item_id]_vars

\* a step in which an add or update request of the browser is answered
\* after the book was read
AddOrUpdateStep ==
    /\ web.route = "none" /\ web'.route = "none"
    /\ web'.last \in {"add_to_cart", "update"} /\ web'.response = "ok"
    /\ <<web, session>>' # <<web, session>>

\* C29: after every add, update and remove request each entry of the
\* session cart has a quantity of at least 1, and the quantity that an add
\* or update request leaves in the cart for its book is not more than the
\* stock of the book that the request read
CartQuantitiesWithinStock ==
    [][/\ \A k \in 1..Len(session'.cart) : session'.cart[k].value.value >= 1
       /\ AddOrUpdateStep =>
             LET book_id == PyInt(Str(web'.book_id_str)) IN
             (book_id.error = "none" /\ book_id.value \in DOMAIN books) =>
                 CartGet(session'.cart, web'.book_id_str)
                     <= books[book_id.value].stock_quantity]_vars

\* C30: a create_order_from_cart call that opened a connection has, once it
\* has returned or raised, no open connection, no unfinished transaction and
\* no row lock, whether it committed, raised a known error or failed
\* unexpectedly
OrderLeavesNothingOpen ==
    \A p \in Procs :
        pc[p] = "done" =>
            /\ conn[p] \in {"none", "closed"}
            /\ tx[p] = EmptyTx
            /\ \A b \in BookIds : lock[b] # p
            /\ ord[p].order_id # 0 => conn[p] = "closed"

\* a call failed unexpectedly after its first decrement and is through, its
\* connection closed, while the other call has the lock of a book
FailedOrderClosed ==
    \E p, q \in Procs :
        /\ pc[p] = "done" /\ result[p] \in {"Database", "OrderProcessing"}
        /\ ord[p].order_id # 0 /\ ord[p].idx = 2
        /\ conn[p] = "closed"
        /\ \E b \in BookIds : lock[b] = q
====
